---- MODULE Spec2Model ----
(***************************************************************************)
(* A model of the Attestix attestation kernel: the JSON collections kept   *)
(* by config.py (_safe_load / _safe_save) and the services that read and   *)
(* write them (identity, credential, delegation, compliance, provenance).  *)
(*                                                                         *)
(* A collection is modelled by the value json.load returns for its file.   *)
(* A Python dict is a TLA+ function on its keys, so `k in d` is            *)
(* k \in DOMAIN d and json.dumps(sort_keys=True) of two dicts agrees       *)
(* exactly when the two functions are equal.  None is "None" where the     *)
(* field otherwise holds a string and <<>> where it holds an id or a       *)
(* signature.                                                              *)
(***************************************************************************)
EXTENDS Integers, Sequences, FiniteSets, TLC

VARIABLES
    now,          \* the wall clock (datetime.now / time.time), in whole days
    next_id,      \* number of uuid4 / token_urlsafe values drawn so far
    identities,   \* identities.json  : data["agents"]
    credentials,  \* credentials.json : data["credentials"]
    delegations,  \* delegations.json : data["delegations"]
    compliance,   \* compliance.json  : profiles, assessments, declarations
    reputation,   \* reputation.json  : interactions, scores
    provenance_entries,  \* provenance.json : data["entries"]
    audit_log,    \* provenance.json  : data["audit_log"]
    last,         \* the last completed service call and what it returned
    pc,           \* per worker: the call in flight between its load and save
    fs,           \* one collection file on disk with its .bak, .tmp, quarantine
    tokens,       \* the delegation tokens returned to callers (never stored)
    acked,        \* the effects of the calls that have returned success
    cache,        \* services/cache.py _cache : cache_key -> (instance, created_at)
    anchors,      \* anchors.json : data["anchors"]
    ledger        \* the transactions sent to the chain, with their outcomes

vars == <<now, next_id, identities, credentials, delegations, compliance,
          audit_log, reputation, provenance_entries, last, pc, fs,
                   tokens, acked, cache, anchors, ledger>>

----------------------------------------------------------------------------
(* Bounds of the model *)

MaxTime == 1
MaxIds == 2

ExpiryDays == {1}
Names == {"Bot"}
Reasons == {"compromised"}
Scores == {"0.9"}

----------------------------------------------------------------------------
(* Generic helpers for Python dicts and lists *)

SetField(r, k, v) == [x \in DOMAIN r \cup {k} |-> IF x = k THEN v ELSE r[x]]

Without(r, ks) == [x \in DOMAIN r \ ks |-> r[x]]

Get(r, k, default) == IF k \in DOMAIN r THEN r[k] ELSE default

Indices(s) == 1..Len(s)

\* index of the first element of list s satisfying "field k equals v", 0 if none
FirstIndex(s, k, v) ==
    IF \E i \in Indices(s) : Get(s[i], k, <<>>) = v
    THEN CHOOSE i \in Indices(s) :
            /\ Get(s[i], k, <<>>) = v
            /\ \A j \in 1..(i - 1) : Get(s[j], k, <<>>) # v
    ELSE 0

----------------------------------------------------------------------------
(* auth/crypto.py : the server key and JSON signatures.  An Ed25519        *)
(* signature is the pair of the signing key and the canonical message: it  *)
(* verifies under a public key exactly when it was made with the matching  *)
(* private key over the same canonical bytes.                              *)

ServerKey == "server-key"

PublicKeyToDidKey(pub) == <<"did:key:z", pub>>

ServerDid == PublicKeyToDidKey(ServerKey)

\* did_key_to_public_key raises ValueError on a did that is no did:key:z...
DidKeyValid(did) == Len(did) = 2 /\ did[1] = "did:key:z"

DidKeyToPublicKey(did) == did[2]

\* did_key_fragment(did): "#" followed by the multibase key of the did, so
\* that did + fragment is the verification method "did:key:z...#z..."
DidKeyFragment(did) == <<"#", did[2]>>

\* "#" in vm
HasFragment(vm) == \E i \in 1..Len(vm) : vm[i] = "#"

\* vm.split("#")[0]
BeforeFragment(vm) ==
    LET i == CHOOSE j \in 1..Len(vm) :
                 vm[j] = "#" /\ \A k \in 1..(j - 1) : vm[k] # "#"
    IN  SubSeq(vm, 1, i - 1)

SignJsonPayload(key, payload) == <<key, payload>>

VerifyJsonSignature(pub, payload, sig) == sig = <<pub, payload>>

----------------------------------------------------------------------------
(* services/identity_service.py *)

\* the dropped revoked_at: a plausible slip in the mutable-field list
MUTABLE_FIELDS_NoRevokedAt ==
    {"signature", "revoked", "revocation_reason", "reputation_score",
     "eu_compliance"}

MUTABLE_FIELDS ==
    {"signature", "revoked", "revocation_reason", "revoked_at",
     "reputation_score", "eu_compliance"}

SignablePayload(uait) == Without(uait, MUTABLE_FIELDS)

AgentId(n) == <<"aura", n>>

NewUait(n, display_name, expiry_days) ==
    LET uait == [version |-> "0.1.0",
                 agent_id |-> AgentId(n),
                 display_name |-> display_name,
                 description |-> "",
                 source_protocol |-> "mcp",
                 identity_token |-> "",
                 token_info |-> <<>>,
                 capabilities |-> <<>>,
                 issuer |-> [name |-> "self", did |-> ServerDid],
                 created_at |-> now,
                 expires_at |-> now + expiry_days,
                 revoked |-> FALSE,
                 revocation_reason |-> "None",
                 reputation_score |-> "None",
                 eu_compliance |-> <<>>,
                 signature |-> <<>>]
    IN  SetField(uait, "signature",
                 SignJsonPayload(ServerKey, SignablePayload(uait)))

\* get_identity: the first stored agent with this id, or <<>> for None
GetIdentity(agents, agent_id) ==
    LET i == FirstIndex(agents, "agent_id", agent_id)
    IN  IF i = 0 THEN <<>> ELSE agents[i]

Revoked(agent, reason) ==
    SetField(SetField(SetField(agent, "revoked", TRUE),
                      "revocation_reason", reason),
             "revoked_at", now)

\* verify_identity with the expiry check left out of the verdict
VerifyIdentity_IgnoresExpiry(agents, agent_id) ==
    LET agent == GetIdentity(agents, agent_id)
    IN  IF agent = <<>>
        THEN [valid |-> FALSE, checks |-> [exists |-> FALSE]]
        ELSE LET not_revoked == ~Get(agent, "revoked", FALSE)
                 not_expired == now < agent.expires_at
                 signature == Get(agent, "signature", <<>>)
                 signature_valid ==
                     IF signature # <<>>
                     THEN IF DidKeyValid(ServerDid)
                          THEN VerifyJsonSignature(DidKeyToPublicKey(ServerDid),
                                                   SignablePayload(agent),
                                                   signature)
                          ELSE FALSE
                     ELSE FALSE
             IN  [valid |-> not_revoked /\ signature_valid,
                  checks |-> [exists |-> TRUE,
                              not_revoked |-> not_revoked,
                              not_expired |-> not_expired,
                              signature_valid |-> signature_valid]]

\* verify_identity on the stored agents
VerifyIdentity(agents, agent_id) ==
    LET agent == GetIdentity(agents, agent_id)
    IN  IF agent = <<>>
        THEN [valid |-> FALSE, checks |-> [exists |-> FALSE]]
        ELSE LET not_revoked == ~Get(agent, "revoked", FALSE)
                 not_expired == now < agent.expires_at
                 signature == Get(agent, "signature", <<>>)
                 signature_valid ==
                     IF signature # <<>>
                     THEN IF DidKeyValid(ServerDid)
                          THEN VerifyJsonSignature(DidKeyToPublicKey(ServerDid),
                                                   SignablePayload(agent),
                                                   signature)
                          ELSE FALSE
                     ELSE FALSE
             IN  [valid |-> not_revoked /\ not_expired /\ signature_valid,
                  checks |-> [exists |-> TRUE,
                              not_revoked |-> not_revoked,
                              not_expired |-> not_expired,
                              signature_valid |-> signature_valid]]

NoCall == [op |-> "none"]

\* the parallel workers serving tool requests; Idle when between calls
Workers == {"w1", "w2"}

Idle == [op |-> "idle"]

CreateIdentity ==
    /\ next_id < MaxIds
    /\ \E display_name \in Names, expiry_days \in ExpiryDays :
          LET uait == NewUait(next_id + 1, display_name, expiry_days)
          IN  /\ identities' = Append(identities, uait)
              /\ last' = [op |-> "create_identity", ret |-> uait.agent_id]
    /\ next_id' = next_id + 1
    /\ UNCHANGED <<now, credentials, delegations, compliance, audit_log, reputation, provenance_entries, pc, fs,
                   tokens, acked, cache, anchors, ledger>>

RevokeIdentity ==
    /\ \E n \in 1..MaxIds, reason \in Reasons :
          LET i == FirstIndex(identities, "agent_id", AgentId(n))
          IN  IF i = 0
              THEN /\ last' = [op |-> "revoke_identity", agent_id |-> AgentId(n),
                               ret |-> <<>>]
                   /\ UNCHANGED identities
              ELSE /\ identities' =
                          [identities EXCEPT ![i] = Revoked(identities[i], reason)]
                   /\ last' = [op |-> "revoke_identity", agent_id |-> AgentId(n),
                               pre |-> identities[i], ret |-> AgentId(n)]
    /\ UNCHANGED <<now, next_id, credentials, delegations, compliance,
                   audit_log, reputation, provenance_entries, pc, fs,
                   tokens, acked, cache, anchors, ledger>>

UpdateReputation ==
    /\ \E n \in 1..MaxIds, score \in Scores :
          LET i == FirstIndex(identities, "agent_id", AgentId(n))
          IN  /\ i # 0
              /\ identities' = [identities EXCEPT
                                  ![i] = SetField(@, "reputation_score", score)]
              /\ last' = [op |-> "update_reputation", agent_id |-> AgentId(n)]
    /\ UNCHANGED <<now, next_id, credentials, delegations, compliance,
                   audit_log, reputation, provenance_entries, pc, fs,
                   tokens, acked, cache, anchors, ledger>>

UpdateComplianceRef ==
    /\ \E n \in 1..MaxIds :
          LET i == FirstIndex(identities, "agent_id", AgentId(n))
          IN  /\ i # 0
              /\ identities' = [identities EXCEPT
                                  ![i] = SetField(@, "eu_compliance", <<"comp", n>>)]
              /\ last' = [op |-> "update_compliance_ref", agent_id |-> AgentId(n)]
    /\ UNCHANGED <<now, next_id, credentials, delegations, compliance,
                   audit_log, reputation, provenance_entries, pc, fs,
                   tokens, acked, cache, anchors, ledger>>

Tick ==
    /\ now < MaxTime
    /\ now' = now + 1
    /\ last' = NoCall
    /\ UNCHANGED <<next_id, identities, credentials, delegations, compliance,
                   audit_log, reputation, provenance_entries, pc, fs,
                   tokens, acked, cache, anchors, ledger>>

EmptyCompliance == [profiles |-> <<>>, assessments |-> <<>>, declarations |-> <<>>]

\* load_reputation's default: no interactions, no scores
EmptyReputation == [interactions |-> <<>>, scores |-> <<>>]

Init ==
    /\ now = 0
    /\ next_id = 0
    /\ identities = <<>>
    /\ credentials = <<>>
    /\ delegations = <<>>
    /\ compliance = EmptyCompliance
    /\ audit_log = <<>>
    /\ reputation = EmptyReputation
    /\ provenance_entries = <<>>
    /\ last = NoCall
    /\ pc = [w \in Workers |-> Idle]
    /\ fs = <<>>
    /\ tokens = {}
    /\ acked = {}
    /\ cache = <<>>
    /\ anchors = <<>>
    /\ ledger = <<>>

NextIdentity ==
    \/ CreateIdentity
    \/ RevokeIdentity
    \/ UpdateReputation
    \/ UpdateComplianceRef
    \/ Tick

SpecIdentity == Init /\ [][NextIdentity]_vars

----------------------------------------------------------------------------
(* C1: after revoke_identity(a, reason) on a stored identity every field   *)
(* outside the mutable set is unchanged, and verify_identity(a) reports    *)
(* signature_valid = true, not_revoked = false and valid = false.          *)

RevokedIdentityCall ==
    /\ last.op = "revoke_identity"
    /\ last.ret # <<>>

C1_RevokeIdentityFrame ==
    RevokedIdentityCall =>
        LET a == last.agent_id
            v == VerifyIdentity(identities, a)
        IN  /\ Without(GetIdentity(identities, a), MUTABLE_FIELDS)
                 = Without(last.pre, MUTABLE_FIELDS)
            /\ v.checks.signature_valid = TRUE
            /\ v.checks.not_revoked = FALSE
            /\ v.valid = FALSE

C1_Witness ==
    /\ RevokedIdentityCall
    /\ last.pre.revoked = FALSE
    /\ last.pre.reputation_score # "None"
    /\ VerifyIdentity(identities, last.agent_id).checks.not_expired

----------------------------------------------------------------------------
(* services/credential_service.py *)

\* a credentialStatus left out of the mutable set: the status would be signed
CREDENTIAL_MUTABLE_FIELDS_ProofOnly == {"proof"}

CREDENTIAL_MUTABLE_FIELDS == {"proof", "credentialStatus"}

CredentialPayload(cred) == Without(cred, CREDENTIAL_MUTABLE_FIELDS)

CredId(n) == <<"urn:uuid", n>>

Subjects == {AgentId(1), AgentId(2)}

CredentialStatus(cred_id, revoked, reason, revoked_at) ==
    [id |-> <<cred_id, "#status">>,
     type |-> "RevocationList2021Status",
     revoked |-> revoked,
     revocation_reason |-> reason,
     revoked_at |-> revoked_at]

NewCredential(n, subject_id, credential_type, issuer_name, claims, expiry_days) ==
    LET credential ==
            SetField([id |-> CredId(n),
                      type |-> <<"VerifiableCredential", credential_type>>,
                      issuer |-> [id |-> ServerDid, name |-> issuer_name],
                      issuanceDate |-> now,
                      expirationDate |-> now + expiry_days,
                      credentialSubject |-> SetField(claims, "id", subject_id),
                      credentialStatus |->
                          CredentialStatus(CredId(n), FALSE, "None", <<>>)],
                     "@context",
                     <<"https://www.w3.org/2018/credentials/v1",
                       "https://w3id.org/security/suites/ed25519-2020/v1">>)
    IN  SetField(credential, "proof",
                 [type |-> "Ed25519Signature2020",
                  created |-> now,
                  verificationMethod |-> ServerDid \o DidKeyFragment(ServerDid),
                  proofPurpose |-> "assertionMethod",
                  proofValue |-> SignJsonPayload(ServerKey,
                                                 CredentialPayload(credential))])

\* _find_credential: the first stored credential with this id, or <<>> for None
FindCredential(creds, credential_id) ==
    LET i == FirstIndex(creds, "id", credential_id)
    IN  IF i = 0 THEN <<>> ELSE creds[i]

\* verify_credential on the stored credentials
VerifyCredential(creds, credential_id) ==
    LET cred == FindCredential(creds, credential_id)
    IN  IF cred = <<>>
        THEN [valid |-> FALSE, checks |-> [exists |-> FALSE]]
        ELSE LET status == Get(cred, "credentialStatus", <<>>)
                 not_revoked == ~Get(status, "revoked", FALSE)
                 not_expired == now < cred.expirationDate
                 proof_value == Get(Get(cred, "proof", <<>>), "proofValue", <<>>)
                 issuer_did == Get(Get(cred, "issuer", <<>>), "id", ServerDid)
                 signature_valid ==
                     IF proof_value # <<>>
                     THEN IF DidKeyValid(issuer_did)
                          THEN VerifyJsonSignature(DidKeyToPublicKey(issuer_did),
                                                   CredentialPayload(cred),
                                                   proof_value)
                          ELSE FALSE
                     ELSE FALSE
             IN  [valid |-> not_revoked /\ not_expired /\ signature_valid,
                  checks |-> [exists |-> TRUE,
                              not_revoked |-> not_revoked,
                              not_expired |-> not_expired,
                              signature_valid |-> signature_valid]]

RevokedCredential(cred, reason) ==
    SetField(cred, "credentialStatus",
             CredentialStatus(cred.id, TRUE, reason, <<now>>))

IssueCredential ==
    /\ next_id < MaxIds
    /\ \E subject_id \in Subjects, expiry_days \in ExpiryDays :
          LET cred == NewCredential(next_id + 1, subject_id,
                                    "AgentIdentityCredential", "Issuer",
                                    [role |-> "tester"], expiry_days)
          IN  /\ credentials' = Append(credentials, cred)
              /\ last' = [op |-> "issue_credential", ret |-> cred.id]
    /\ next_id' = next_id + 1
    /\ UNCHANGED <<now, identities, delegations, compliance, audit_log, reputation, provenance_entries, pc, fs,
                   tokens, acked, cache, anchors, ledger>>

RevokeCredential ==
    /\ \E n \in 1..MaxIds, reason \in Reasons :
          LET i == FirstIndex(credentials, "id", CredId(n))
          IN  IF i = 0
              THEN /\ last' = [op |-> "revoke_credential",
                               credential_id |-> CredId(n), ret |-> "error"]
                   /\ UNCHANGED credentials
              ELSE /\ credentials' =
                          [credentials EXCEPT
                              ![i] = RevokedCredential(credentials[i], reason)]
                   /\ last' = [op |-> "revoke_credential",
                               credential_id |-> CredId(n), ret |-> "revoked",
                               pre |-> credentials]
    /\ UNCHANGED <<now, next_id, identities, delegations, compliance,
                   audit_log, reputation, provenance_entries, pc, fs,
                   tokens, acked, cache, anchors, ledger>>

NextCredential ==
    \/ IssueCredential
    \/ RevokeCredential
    \/ Tick

SpecCredential == Init /\ [][NextCredential]_vars

----------------------------------------------------------------------------
(* C2: after revoke_credential(c, reason) on a stored credential only its  *)
(* credentialStatus has changed (every other field of c and every other    *)
(* credential is as before), and verify_credential(c) reports              *)
(* signature_valid = true, not_revoked = false and valid = false.          *)

RevokedCredentialCall ==
    /\ last.op = "revoke_credential"
    /\ last.ret = "revoked"

C2_RevokeCredentialOnlyStatus ==
    RevokedCredentialCall =>
        LET c == last.credential_id
            i == FirstIndex(last.pre, "id", c)
            v == VerifyCredential(credentials, c)
        IN  /\ Len(credentials) = Len(last.pre)
            /\ \A j \in Indices(credentials) :
                  IF j = i
                  THEN Without(credentials[j], {"credentialStatus"})
                          = Without(last.pre[j], {"credentialStatus"})
                  ELSE credentials[j] = last.pre[j]
            /\ v.checks.signature_valid = TRUE
            /\ v.checks.not_revoked = FALSE
            /\ v.valid = FALSE

C2_Witness ==
    /\ RevokedCredentialCall
    /\ Len(credentials) = 2
    /\ VerifyCredential(last.pre, last.credential_id).valid
    /\ VerifyCredential(credentials, last.credential_id).checks.not_expired

----------------------------------------------------------------------------
(* services/delegation_service.py.  A call that writes is two critical     *)
(* sections of the collection's file lock: load_delegations() and, later,  *)
(* save_delegations(data).  Between the two the worker holds its own copy  *)
(* of the collection in pc[w].data and other workers may run.              *)

Jti(n) == <<"jti", n>>

\* parent_token=None
NoToken == <<>>

\* the expiry_hours and capabilities given to create_delegation
ExpiryHours == {0, 1}

Capabilities == {<<"read">>, <<"read", "write">>}

\* jwt.encode(payload, private_key, "EdDSA")
JwtEncode(payload, key) ==
    [header |-> [typ |-> "JWT", ucv |-> "0.9.0", alg |-> "EdDSA"],
     payload |-> payload,
     signature |-> <<key, payload>>]

NewDelegationPayload(n, issuer_agent_id, audience_agent_id, capabilities, expiry_hours, parent_token) ==
    [iss |-> ServerDid,
     aud |-> audience_agent_id,
     sub |-> audience_agent_id,
     iat |-> now,
     exp |-> now + expiry_hours,
     nbf |-> now,
     jti |-> Jti(n),
     att |-> capabilities,
     delegator |-> issuer_agent_id,
     prf |-> IF parent_token # NoToken THEN <<parent_token>> ELSE <<>>,
     attestix_version |-> "0.1.0",
     typ |-> "ucan/delegation"]

NewDelegationRecord_KeepsToken(n, issuer_agent_id, audience_agent_id, capabilities, expiry_hours) ==
    [jti |-> Jti(n),
     issuer |-> issuer_agent_id,
     audience |-> audience_agent_id,
     capabilities |-> capabilities,
     created_at |-> now,
     expires_at |-> now + expiry_hours,
     revoked |-> FALSE,
     token |-> JwtEncode(NewDelegationPayload(n, issuer_agent_id,
                                              audience_agent_id, capabilities,
                                              expiry_hours, NoToken),
                         ServerKey)]

NewDelegationRecord(n, issuer_agent_id, audience_agent_id, capabilities, expiry_hours) ==
    [jti |-> Jti(n),
     issuer |-> issuer_agent_id,
     audience |-> audience_agent_id,
     capabilities |-> capabilities,
     created_at |-> now,
     expires_at |-> now + expiry_hours,
     revoked |-> FALSE]

JwtDecode_ExpiresAfterExp(token, pub, t) ==
    IF token.signature # <<pub, token.payload>> THEN "InvalidTokenError"
    ELSE IF token.payload.nbf > t THEN "InvalidTokenError"
    ELSE IF token.payload.exp < t THEN "ExpiredSignatureError"
    ELSE "ok"

\* jwt.decode(token, public_key, algorithms=["EdDSA"], verify_aud=False):
\* "ok", or the exception it raises
JwtDecode(token, pub, t) ==
    IF token.signature # <<pub, token.payload>> THEN "InvalidTokenError"
    ELSE IF token.payload.nbf > t THEN "InvalidTokenError"
    ELSE IF token.payload.exp <= t THEN "ExpiredSignatureError"
    ELSE "ok"

VerifyDelegation_ChecksParents(ds, t, token) ==
    LET decoded == JwtDecode(token, DidKeyToPublicKey(ServerDid), t)
        jtis == {token.payload.jti}
                    \cup {token.payload.prf[k].payload.jti :
                             k \in 1..Len(token.payload.prf)}
    IN  IF decoded = "ExpiredSignatureError"
        THEN [valid |-> FALSE, reason |-> "Token has expired"]
        ELSE IF decoded # "ok"
        THEN [valid |-> FALSE, reason |-> "Invalid token"]
        ELSE IF \E i \in Indices(ds) :
                   Get(ds[i], "jti", <<>>) \in jtis /\ Get(ds[i], "revoked", FALSE)
        THEN [valid |-> FALSE, reason |-> "Token has been revoked"]
        ELSE [valid |-> TRUE,
              jti |-> token.payload.jti,
              capabilities |-> token.payload.att,
              proof_chain |-> token.payload.prf,
              expired |-> token.payload.exp < t]

\* verify_delegation(token) against the stored records ds at time t
VerifyDelegation(ds, t, token) ==
    LET decoded == JwtDecode(token, DidKeyToPublicKey(ServerDid), t)
        jti == token.payload.jti
    IN  IF decoded = "ExpiredSignatureError"
        THEN [valid |-> FALSE, reason |-> "Token has expired"]
        ELSE IF decoded # "ok"
        THEN [valid |-> FALSE, reason |-> "Invalid token"]
        ELSE IF \E i \in Indices(ds) :
                   Get(ds[i], "jti", <<>>) = jti /\ Get(ds[i], "revoked", FALSE)
        THEN [valid |-> FALSE, reason |-> "Token has been revoked"]
        ELSE [valid |-> TRUE,
              jti |-> jti,
              capabilities |-> token.payload.att,
              proof_chain |-> token.payload.prf,
              expired |-> token.payload.exp < t]

RevokedDelegation(d, reason) ==
    SetField(SetField(SetField(d, "revoked", TRUE),
                      "revocation_reason", reason),
             "revoked_at", now)

\* create_delegation up to load_delegations, with the arguments given
CreateDelegationLoadWith(w, capabilities, expiry_hours, parent_token) ==
    /\ pc[w] = Idle
    /\ next_id < MaxIds
    /\ LET n == next_id + 1
           payload == NewDelegationPayload(n, "agent-a", "agent-b",
                                           capabilities, expiry_hours,
                                           parent_token)
           record == NewDelegationRecord(n, "agent-a", "agent-b",
                                         capabilities, expiry_hours)
       IN  pc' = [pc EXCEPT ![w] =
                     [op |-> "create_delegation",
                      token |-> JwtEncode(payload, ServerKey),
                      data |-> Append(delegations, record)]]
    /\ next_id' = next_id + 1
    /\ UNCHANGED <<now, identities, credentials, delegations, compliance,
                   audit_log, reputation, provenance_entries, last, fs, tokens, acked, cache, anchors, ledger>>

CreateDelegationLoad(w) ==
    \E expiry_hours \in ExpiryDays :
        CreateDelegationLoadWith(w, <<"read">>, expiry_hours, NoToken)

CreateDelegationSave(w) ==
    /\ pc[w].op = "create_delegation"
    /\ delegations' = pc[w].data
    /\ tokens' = tokens \cup {pc[w].token}
    /\ acked' = acked \cup {<<"create_delegation", pc[w].token.payload.jti>>}
    /\ last' = [op |-> "create_delegation", ret |-> pc[w].token.payload.jti]
    /\ pc' = [pc EXCEPT ![w] = Idle]
    /\ UNCHANGED <<now, next_id, identities, credentials, compliance,
                   audit_log, reputation, provenance_entries, fs, cache, anchors, ledger>>

RevokeDelegationLoad_RevokesAgain(w) ==
    /\ pc[w] = Idle
    /\ \E n \in 1..MaxIds, reason \in Reasons :
          LET i == FirstIndex(delegations, "jti", Jti(n))
          IN  IF i = 0
              THEN /\ last' = [op |-> "revoke_delegation", jti |-> Jti(n),
                               ret |-> "error: not found"]
                   /\ UNCHANGED pc
              ELSE /\ pc' = [pc EXCEPT ![w] =
                               [op |-> "revoke_delegation",
                                jti |-> Jti(n),
                                data |-> [delegations EXCEPT ![i] =
                                            RevokedDelegation(@, reason)]]]
                   /\ UNCHANGED last
    /\ UNCHANGED <<now, next_id, identities, credentials, delegations,
                   compliance, audit_log, reputation, provenance_entries, fs, tokens, acked, cache, anchors, ledger>>

\* revoke_delegation up to the search of the loaded list: the two refusals
\* return here, otherwise the worker holds the list with the record revoked
RevokeDelegationLoad(w) ==
    /\ pc[w] = Idle
    /\ \E n \in 1..MaxIds, reason \in Reasons :
          LET i == FirstIndex(delegations, "jti", Jti(n))
          IN  IF i = 0
              THEN /\ last' = [op |-> "revoke_delegation", jti |-> Jti(n),
                               ret |-> "error: not found"]
                   /\ UNCHANGED pc
              ELSE IF Get(delegations[i], "revoked", FALSE)
              THEN /\ last' = [op |-> "revoke_delegation", jti |-> Jti(n),
                               ret |-> "error: already revoked"]
                   /\ UNCHANGED pc
              ELSE /\ pc' = [pc EXCEPT ![w] =
                               [op |-> "revoke_delegation",
                                jti |-> Jti(n),
                                data |-> [delegations EXCEPT ![i] =
                                            RevokedDelegation(@, reason)]]]
                   /\ UNCHANGED last
    /\ UNCHANGED <<now, next_id, identities, credentials, delegations,
                   compliance, audit_log, reputation, provenance_entries, fs, tokens, acked, cache, anchors, ledger>>

RevokeDelegationSave(w) ==
    /\ pc[w].op = "revoke_delegation"
    /\ delegations' = pc[w].data
    /\ acked' = acked \cup {<<"revoke_delegation", pc[w].jti>>}
    /\ last' = [op |-> "revoke_delegation", jti |-> pc[w].jti, ret |-> "revoked"]
    /\ pc' = [pc EXCEPT ![w] = Idle]
    /\ UNCHANGED <<now, next_id, identities, credentials, compliance,
                   audit_log, reputation, provenance_entries, fs, tokens, cache, anchors, ledger>>

CreateDelegation == \E w \in Workers : CreateDelegationLoad(w)

CreateDelegationDone == \E w \in Workers : CreateDelegationSave(w)

RevokeDelegation == \E w \in Workers : RevokeDelegationLoad(w)

RevokeDelegationDone == \E w \in Workers : RevokeDelegationSave(w)

NextDelegation ==
    \/ CreateDelegation
    \/ CreateDelegationDone
    \/ RevokeDelegation
    \/ RevokeDelegationDone
    \/ Tick

SpecDelegation == Init /\ [][NextDelegation]_vars

----------------------------------------------------------------------------
(* C3: once revoke_delegation(jti) has returned success, verify_delegation *)
(* of every token carrying that jti returns valid = false, in every later  *)
(* state.                                                                  *)

C3_RevokedDelegationStaysInvalid ==
    \A token \in tokens :
        <<"revoke_delegation", token.payload.jti>> \in acked
            => VerifyDelegation(delegations, now, token).valid = FALSE

----------------------------------------------------------------------------
(* services/compliance_service.py.  Free-text arguments are sequences of   *)
(* characters so that str.strip() is computed, not assumed.                *)

MaxAssessments == 1
MaxDeclarations == 1

\* the texts given for intended_purpose, transparency_obligations and
\* human_oversight_measures: empty, blank, or with content
Texts == {<<>>, <<" ">>, <<"x">>}
TransparencyTexts == {<<>>, <<"x">>}
OversightTexts == {<<" ">>, <<"x">>}

TextsOf(field) ==
    IF field = "intended_purpose" THEN Texts
    ELSE IF field = "obligations" THEN TransparencyTexts
    ELSE OversightTexts

RECURSIVE LStrip(_)
LStrip(s) == IF s # <<>> /\ Head(s) = " " THEN LStrip(Tail(s)) ELSE s

RECURSIVE RStrip(_)
RStrip(s) ==
    IF s # <<>> /\ s[Len(s)] = " " THEN RStrip(SubSeq(s, 1, Len(s) - 1)) ELSE s

\* str.strip()
Strip(s) == RStrip(LStrip(s))

VALID_RISK_CATEGORIES == {"minimal", "limited", "high", "unacceptable"}

VALID_ASSESSMENT_TYPES == {"self", "third_party"}

VALID_ASSESSMENT_RESULTS == {"pass", "conditional", "fail"}

ProfileId(n) == <<"comp", n>>

AssessmentId(n) == <<"assess", n>>

DeclarationId(n) == <<"decl", n>>

\* get_compliance_profile: the first profile of the agent, or <<>> for None
GetComplianceProfile(c, agent_id) ==
    LET i == FirstIndex(c.profiles, "agent_id", agent_id)
    IN  IF i = 0 THEN <<>> ELSE c.profiles[i]

\* next(a for a in data["assessments"] if a["assessment_id"] == id, None)
FindAssessment(c, assess_id) ==
    LET i == FirstIndex(c.assessments, "assessment_id", assess_id)
    IN  IF i = 0 THEN <<>> ELSE c.assessments[i]

SignRecord(r) ==
    SetField(r, "signature", SignJsonPayload(ServerKey, Without(r, {"signature"})))

NewProfile(n, agent, risk_category, intended_purpose, transparency_obligations, human_oversight_measures) ==
    SignRecord(
        [profile_id |-> ProfileId(n),
         agent_id |-> agent.agent_id,
         risk_category |-> risk_category,
         provider |-> [name |-> "Corp", did |-> ServerDid, address |-> "",
                       authorised_representative |-> ""],
         ai_system |-> [intended_purpose |-> intended_purpose,
                        display_name |-> Get(agent, "display_name", "")],
         transparency |-> [obligations |-> transparency_obligations,
                           human_oversight_measures |-> human_oversight_measures],
         required_obligations |-> risk_category,
         conformity |-> [assessment_completed |-> FALSE,
                         assessment_id |-> <<>>,
                         declaration_id |-> <<>>,
                         ce_marking_eligible |-> FALSE],
         created_at |-> now,
         updated_at |-> now])

NewAssessment(n, agent_id, assessment_type, result, ce_marking_eligible) ==
    SignRecord(
        [assessment_id |-> AssessmentId(n),
         agent_id |-> agent_id,
         assessment_type |-> assessment_type,
         assessor_name |-> "Assessor",
         result |-> result,
         findings |-> "",
         ce_marking_eligible |-> ce_marking_eligible /\ result = "pass",
         assessed_at |-> now,
         assessed_by |-> ServerDid])

\* record_conformity_assessment: the profile after the assessment is attached
WithAssessment(p, assessment) ==
    [p EXCEPT !.conformity.assessment_completed =
                  assessment.result \in {"pass", "conditional"},
              !.conformity.assessment_id = assessment.assessment_id,
              !.conformity.ce_marking_eligible = assessment.ce_marking_eligible,
              !.updated_at = now]

\* the prerequisite checks of generate_declaration_of_conformity, with the
\* human-oversight check of high-risk systems left out
DeclarationError_NoOversight(profile, c_check) ==
    IF profile = <<>> THEN "No compliance profile found"
    ELSE IF ~profile.conformity.assessment_completed
    THEN "conformity assessment not completed or not passed"
    ELSE IF Strip(profile.ai_system.intended_purpose) = <<>>
            \/ Strip(profile.transparency.obligations) = <<>>
    THEN "missing required fields"
    ELSE ""

\* the prerequisite checks of generate_declaration_of_conformity on the
\* profile it read, c_check being the collection as reloaded for the
\* third-party check: the error returned, or "" when the checks pass
DeclarationError(profile, c_check) ==
    IF profile = <<>> THEN "No compliance profile found"
    ELSE IF ~profile.conformity.assessment_completed
    THEN "conformity assessment not completed or not passed"
    ELSE LET high == profile.risk_category = "high"
             assess_id == profile.conformity.assessment_id
             assessment == IF assess_id # <<>>
                           THEN FindAssessment(c_check, assess_id) ELSE <<>>
             missing ==
                 \/ Strip(profile.ai_system.intended_purpose) = <<>>
                 \/ Strip(profile.transparency.obligations) = <<>>
                 \/ high /\ Strip(profile.transparency.human_oversight_measures) = <<>>
         IN  IF high /\ assessment # <<>>
                     /\ Get(assessment, "assessment_type", "None") # "third_party"
             THEN "High-risk AI systems require third_party conformity assessment"
             ELSE IF missing THEN "missing required fields"
             ELSE ""

NewDeclaration(n, profile, assess_record) ==
    SignRecord(
        [declaration_id |-> DeclarationId(n),
         agent_id |-> profile.agent_id,
         regulation_reference |-> "Regulation (EU) 2024/1689 (EU AI Act) Annex V",
         annex_v_fields |->
            [provider_name |-> profile.provider.name,
             ai_system_name |-> profile.ai_system.display_name,
             ai_system_id |-> profile.agent_id,
             intended_purpose |-> profile.ai_system.intended_purpose,
             risk_category |-> profile.risk_category,
             conformity_assessment_id |-> profile.conformity.assessment_id,
             assessment_type |-> IF assess_record # <<>>
                                 THEN assess_record.assessment_type ELSE "",
             transparency_obligations |-> profile.transparency.obligations,
             human_oversight |-> profile.transparency.human_oversight_measures,
             ce_marking_eligible |-> profile.conformity.ce_marking_eligible,
             declaration_date |-> now,
             signatory_did |-> profile.provider.did],
         issued_at |-> now,
         issuer_did |-> ServerDid])

WithDeclaration_ProfileUntouched(c, declaration) ==
    [c EXCEPT !.declarations = Append(@, declaration)]

\* the write of generate_declaration_of_conformity on the collection c
WithDeclaration(c, declaration) ==
    LET i == FirstIndex(c.profiles, "agent_id", declaration.agent_id)
        withDecl == [c EXCEPT !.declarations = Append(@, declaration)]
    IN  IF i = 0 THEN withDecl
        ELSE [withDecl EXCEPT
                !.profiles[i].conformity.declaration_id = declaration.declaration_id,
                !.profiles[i].updated_at = now]

ComplianceCredentialExpiryDays == 365

ComplianceCredential(n, profile, declaration_id) ==
    NewCredential(n, profile.agent_id, "EUAIActComplianceCredential",
                  profile.provider.name,
                  [declaration_id |-> declaration_id,
                   risk_category |-> profile.risk_category,
                   conformity_assessment_id |-> profile.conformity.assessment_id,
                   ce_marking_eligible |-> profile.conformity.ce_marking_eligible,
                   eu_ai_act_compliant |-> TRUE],
                  ComplianceCredentialExpiryDays)

ComplianceAgents == {AgentId(1), AgentId(2)}

CreateComplianceProfile ==
    /\ \E agent_id \in ComplianceAgents,
          risk_category \in {"limited", "high", "unacceptable", "bogus"} :
          LET agent == GetIdentity(identities, agent_id)
              i == FirstIndex(identities, "agent_id", agent_id)
              error ==
                  IF risk_category \notin VALID_RISK_CATEGORIES
                  THEN "Invalid risk_category"
                  ELSE IF risk_category = "unacceptable"
                  THEN "Unacceptable-risk AI systems are prohibited"
                  ELSE IF agent = <<>> THEN "Agent not found"
                  ELSE IF GetComplianceProfile(compliance, agent_id) # <<>>
                  THEN "Compliance profile already exists"
                  ELSE ""
          IN  IF error # ""
              THEN /\ last' = [op |-> "create_compliance_profile",
                               ret |-> "error"]
                   /\ UNCHANGED <<next_id, compliance, identities>>
              ELSE \E intended_purpose \in Texts,
                      transparency_obligations \in TransparencyTexts,
                      human_oversight_measures \in OversightTexts :
                   LET profile == NewProfile(next_id + 1, agent, risk_category,
                                             intended_purpose,
                                             transparency_obligations,
                                             human_oversight_measures)
                   IN  /\ next_id' = next_id + 1
                       /\ compliance' = [compliance EXCEPT
                                            !.profiles = Append(@, profile)]
                       /\ identities' = [identities EXCEPT ![i] =
                              SetField(@, "eu_compliance", profile.profile_id)]
                       /\ last' = [op |-> "create_compliance_profile",
                                   ret |-> "ok"]
    /\ UNCHANGED <<now, credentials, delegations, audit_log, reputation, provenance_entries, pc, fs,
                   tokens, acked, cache, anchors, ledger>>

UpdateComplianceProfile ==
    /\ \E agent_id \in ComplianceAgents,
          field \in {"intended_purpose", "obligations", "human_oversight_measures"} :
       \E text \in TextsOf(field) :
          LET i == FirstIndex(compliance.profiles, "agent_id", agent_id)
              p == compliance.profiles[i]
              q == IF field = "intended_purpose"
                   THEN [p EXCEPT !.ai_system.intended_purpose = text]
                   ELSE [p EXCEPT !.transparency[field] = text]
          IN  IF i = 0
              THEN /\ last' = [op |-> "update_compliance_profile",
                               ret |-> "error"]
                   /\ UNCHANGED compliance
              ELSE /\ compliance' = [compliance EXCEPT !.profiles[i] =
                          SignRecord([q EXCEPT !.updated_at = now])]
                   /\ last' = [op |-> "update_compliance_profile",
                               ret |-> "ok"]
    /\ UNCHANGED <<now, next_id, identities, credentials, delegations,
                   audit_log, reputation, provenance_entries, pc, fs, tokens, acked, cache, anchors, ledger>>

AssessmentError_AllowsSelf(profile, assessment_type, result) ==
    IF assessment_type \notin VALID_ASSESSMENT_TYPES
    THEN "Invalid assessment_type"
    ELSE IF result \notin VALID_ASSESSMENT_RESULTS THEN "Invalid result"
    ELSE IF profile = <<>> THEN "No compliance profile found"
    ELSE ""

\* the refusals of record_conformity_assessment, in the order the code tests them
AssessmentError(profile, assessment_type, result) ==
    IF assessment_type \notin VALID_ASSESSMENT_TYPES
    THEN "Invalid assessment_type"
    ELSE IF result \notin VALID_ASSESSMENT_RESULTS THEN "Invalid result"
    ELSE IF profile = <<>> THEN "No compliance profile found"
    ELSE IF profile.risk_category = "high" /\ assessment_type = "self"
    THEN "High-risk AI systems require third_party conformity assessment (Article 43)."
    ELSE ""

RecordConformityAssessment ==
    /\ \E agent_id \in ComplianceAgents,
          assessment_type \in {"self", "third_party", "bogus"},
          result \in VALID_ASSESSMENT_RESULTS :
          LET profile == GetComplianceProfile(compliance, agent_id)
              assessment == NewAssessment(next_id + 1, agent_id,
                                          assessment_type, result, TRUE)
              i == FirstIndex(compliance.profiles, "agent_id", agent_id)
              error == AssessmentError(profile, assessment_type, result)
          IN  IF error # ""
              THEN /\ last' = [op |-> "record_conformity_assessment",
                               agent_id |-> agent_id,
                               assessment_type |-> assessment_type,
                               ret |-> "error", error |-> error]
                   /\ UNCHANGED <<next_id, compliance>>
              ELSE /\ Len(compliance.assessments) < MaxAssessments
                   /\ next_id' = next_id + 1
                   /\ compliance' = [compliance EXCEPT
                          !.assessments = Append(@, assessment),
                          !.profiles[i] = WithAssessment(@, assessment)]
                   /\ last' = [op |-> "record_conformity_assessment",
                               agent_id |-> agent_id,
                               assessment_type |-> assessment_type,
                               ret |-> "ok", error |-> ""]
    /\ UNCHANGED <<now, identities, credentials, delegations, audit_log, reputation, provenance_entries, pc, fs,
                   tokens, acked, cache, anchors, ledger>>

GenerateDeclarationOfConformity ==
    /\ \E agent_id \in ComplianceAgents :
          LET profile == GetComplianceProfile(compliance, agent_id)
              error == DeclarationError(profile, compliance)
              assess_id == profile.conformity.assessment_id
              assess_record == IF assess_id # <<>>
                               THEN FindAssessment(compliance, assess_id)
                               ELSE <<>>
              declaration == NewDeclaration(next_id + 1, profile, assess_record)
          IN  IF error # ""
              THEN /\ last' = [op |-> "generate_declaration_of_conformity",
                               agent_id |-> agent_id, ret |-> "error",
                               error |-> error,
                               pre |-> [compliance |-> compliance,
                                        credentials |-> credentials]]
                   /\ UNCHANGED <<next_id, compliance, credentials>>
              ELSE /\ Len(compliance.declarations) < MaxDeclarations
                   /\ next_id' = next_id + 2
                   /\ compliance' = WithDeclaration(compliance, declaration)
                   /\ credentials' =
                          Append(credentials,
                                 ComplianceCredential(next_id + 2, profile,
                                                      declaration.declaration_id))
                   /\ last' = [op |-> "generate_declaration_of_conformity",
                               agent_id |-> agent_id, ret |-> "ok",
                               pre |-> [compliance |-> compliance,
                                        credentials |-> credentials]]
    /\ UNCHANGED <<now, identities, delegations, audit_log, reputation, provenance_entries, pc, fs,
                   tokens, acked, cache, anchors, ledger>>

\* the state after create_identity("Bot", "mcp", expiry_days=1) on empty stores
InitCompliance ==
    /\ now = 0
    /\ next_id = 1
    /\ identities = <<NewUait(1, "Bot", 1)>>
    /\ credentials = <<>>
    /\ delegations = <<>>
    /\ compliance = EmptyCompliance
    /\ audit_log = <<>>
    /\ reputation = EmptyReputation
    /\ provenance_entries = <<>>
    /\ last = NoCall
    /\ pc = [w \in Workers |-> Idle]
    /\ fs = <<>>
    /\ tokens = {}
    /\ acked = {}
    /\ cache = <<>>
    /\ anchors = <<>>
    /\ ledger = <<>>

NextCompliance ==
    \/ CreateComplianceProfile
    \/ UpdateComplianceProfile
    \/ RecordConformityAssessment
    \/ GenerateDeclarationOfConformity

SpecCompliance == InitCompliance /\ [][NextCompliance]_vars

\* ---------------------------------------------------------------------
\* C4: the declaration gate

GeneratedDeclarationCall == last.op = "generate_declaration_of_conformity"

\* the assessment the profile of agent_id refers to in collection c
AssessmentOnRecord(c, agent_id) ==
    LET p == GetComplianceProfile(c, agent_id)
    IN  IF p = <<>> THEN <<>> ELSE FindAssessment(c, p.conformity.assessment_id)

\* the gate with "non-empty" read as "has at least one character"
GateNonEmpty(c, agent_id) ==
    LET p == GetComplianceProfile(c, agent_id)
        a == AssessmentOnRecord(c, agent_id)
    IN  /\ p # <<>>
        /\ a # <<>>
        /\ a.result \in {"pass", "conditional"}
        /\ p.ai_system.intended_purpose # <<>>
        /\ p.transparency.obligations # <<>>
        /\ p.risk_category = "high" =>
              /\ p.transparency.human_oversight_measures # <<>>
              /\ a.assessment_type = "third_party"

\* the gate with "non-empty" read as "has a character that is not white space"
GateNonBlank(c, agent_id) ==
    LET p == GetComplianceProfile(c, agent_id)
        a == AssessmentOnRecord(c, agent_id)
    IN  /\ p # <<>>
        /\ a # <<>>
        /\ a.result \in {"pass", "conditional"}
        /\ Strip(p.ai_system.intended_purpose) # <<>>
        /\ Strip(p.transparency.obligations) # <<>>
        /\ p.risk_category = "high" =>
              /\ Strip(p.transparency.human_oversight_measures) # <<>>
              /\ a.assessment_type = "third_party"

\* a failed call stored nothing, a successful one stored one declaration and
\* one credential
DeclarationEffect ==
    IF last.ret = "ok"
    THEN /\ Len(compliance.declarations) = Len(last.pre.compliance.declarations) + 1
         /\ Len(credentials) = Len(last.pre.credentials) + 1
    ELSE /\ compliance = last.pre.compliance
         /\ credentials = last.pre.credentials

\* C4 as stated: generate_declaration_of_conformity(a) succeeds exactly when
\* a profile exists, its assessment passed or passed conditionally, purpose
\* and transparency obligations are non-empty and, for a high-risk system,
\* oversight measures are non-empty and the assessment is third_party;
\* otherwise it returns an error and stores nothing.
C4_DeclarationGateNonEmpty ==
    GeneratedDeclarationCall =>
        /\ (last.ret = "ok") <=> GateNonEmpty(last.pre.compliance, last.agent_id)
        /\ DeclarationEffect

\* C4 amended: the same with every "non-empty" read as "non-empty after
\* white space is stripped": a text of blanks only is refused like an empty one.
C4_DeclarationGateNonBlank ==
    GeneratedDeclarationCall =>
        /\ (last.ret = "ok") <=> GateNonBlank(last.pre.compliance, last.agent_id)
        /\ DeclarationEffect

\* a declaration was generated for a high-risk system
C4_Witness ==
    /\ GeneratedDeclarationCall
    /\ last.ret = "ok"
    /\ GetComplianceProfile(compliance, last.agent_id).risk_category = "high"
    /\ Len(compliance.declarations) = 1
    /\ Len(credentials) = 1

\* ---------------------------------------------------------------------
\* Provenance service: the audit log (src/services/provenance_service.py).
\* log_action builds and signs its entry, then reads provenance.json
\* (load_provenance), appends and writes it back (save_provenance); the file
\* lock is taken by the read and by the write separately, so calls served by
\* different workers interleave between the two.

MaxLogs == 3

VALID_ACTION_TYPES == {"inference", "delegation", "data_access", "external_call"}

ActionTypes == {"inference", "bogus"}

AuditAgents == {AgentId(1), AgentId(2)}

LogId(n) == <<"audit", n>>

NewLogEntry(n, agent_id, action_type) ==
    SignRecord(
        [log_id |-> LogId(n),
         agent_id |-> agent_id,
         action_type |-> action_type,
         input_summary |-> "",
         output_summary |-> "",
         decision_rationale |-> "",
         human_override |-> FALSE,
         timestamp |-> now,
         logged_by |-> ServerDid])

\* log_action up to and including load_provenance and the append in memory
LogActionLoad(w) ==
    /\ pc[w] = Idle
    /\ \E agent_id \in AuditAgents, action_type \in ActionTypes :
          IF action_type \notin VALID_ACTION_TYPES
          THEN /\ last' = [op |-> "log_action", ret |-> "error"]
               /\ UNCHANGED <<pc, next_id>>
          ELSE /\ next_id < MaxLogs
               /\ next_id' = next_id + 1
               /\ pc' = [pc EXCEPT ![w] =
                            [op |-> "log_action",
                             entry |-> NewLogEntry(next_id + 1, agent_id, action_type),
                             entries |-> provenance_entries,
                             data |-> Append(audit_log,
                                             NewLogEntry(next_id + 1, agent_id,
                                                         action_type))]]
               /\ UNCHANGED last
    /\ UNCHANGED <<now, identities, credentials, delegations, compliance,
                   audit_log, reputation, provenance_entries, fs, tokens, acked, cache, anchors, ledger>>

\* save_provenance and the return of the entry
LogActionSave(w) ==
    /\ pc[w].op = "log_action"
    /\ audit_log' = pc[w].data
    /\ provenance_entries' = pc[w].entries
    /\ acked' = acked \cup {<<"log_action", pc[w].entry>>}
    /\ last' = [op |-> "log_action", ret |-> pc[w].entry.log_id]
    /\ pc' = [pc EXCEPT ![w] = Idle]
    /\ UNCHANGED <<now, next_id, identities, credentials, delegations,
                   compliance, reputation, fs, tokens, cache, anchors, ledger>>

LogAction == \E w \in Workers : LogActionLoad(w)

LogActionDone == \E w \in Workers : LogActionSave(w)

NextAudit ==
    \/ LogAction
    \/ LogActionDone
    \/ Tick

SpecAudit == Init /\ [][NextAudit]_vars

\* the entries of one agent, in log order
AgentChain(agent_id) == SelectSeq(audit_log, LAMBDA e : e.agent_id = agent_id)

ZeroHash == "0000000000000000000000000000000000000000000000000000000000000000"

\* C5: for every agent, the first entry logged has prev_hash equal to 64 zero
\* hex characters and every later entry's prev_hash equals the chain_hash of
\* the entry of the same agent right before it.
C5_AuditHashChain ==
    \A agent_id \in AuditAgents :
        LET chain == AgentChain(agent_id)
        IN  \A i \in Indices(chain) :
                /\ "prev_hash" \in DOMAIN chain[i]
                /\ "chain_hash" \in DOMAIN chain[i]
                /\ chain[i].prev_hash = IF i = 1 THEN ZeroHash
                                        ELSE chain[i - 1].chain_hash

\* the entries log_action has returned to its callers
ReturnedEntries == {x[2] : x \in {y \in acked : y[1] = "log_action"}}

\* C7: with log_action calls running concurrently, every entry returned to a
\* caller is in the log afterwards, and no two entries of one agent carry the
\* same prev_hash.
C7_LogActionAtomic ==
    /\ \A e \in ReturnedEntries : \E i \in Indices(audit_log) : audit_log[i] = e
    /\ \A i, j \in Indices(audit_log) :
          (/\ i # j
           /\ audit_log[i].agent_id = audit_log[j].agent_id
           /\ "prev_hash" \in DOMAIN audit_log[i]
           /\ "prev_hash" \in DOMAIN audit_log[j])
          => audit_log[i].prev_hash # audit_log[j].prev_hash

\* ---------------------------------------------------------------------
\* Identity service with calls served in parallel.  Every operation reads
\* identities.json with load_identities, changes the list in memory and
\* writes it back with save_identities; _safe_load and _safe_save take the
\* file lock one after the other (config.py 47, 75), so another worker's
\* read or write can fall between the two.

\* the identity the concurrent revocations and updates are aimed at
ConcTargets == {1}

CreateIdentityLoad(w) ==
    /\ pc[w] = Idle
    /\ next_id < MaxIds
    /\ \E display_name \in Names, expiry_days \in ExpiryDays :
          LET uait == NewUait(next_id + 1, display_name, expiry_days)
          IN  pc' = [pc EXCEPT ![w] =
                        [op |-> "create_identity", agent_id |-> uait.agent_id,
                         data |-> Append(identities, uait)]]
    /\ next_id' = next_id + 1
    /\ UNCHANGED <<now, identities, credentials, delegations, compliance,
                   audit_log, reputation, provenance_entries, last, fs, tokens, acked, cache, anchors, ledger>>

RevokeIdentityLoad(w) ==
    /\ pc[w] = Idle
    /\ \E n \in ConcTargets, reason \in Reasons :
          LET i == FirstIndex(identities, "agent_id", AgentId(n))
          IN  IF i = 0
              THEN /\ last' = [op |-> "revoke_identity", agent_id |-> AgentId(n),
                               ret |-> <<>>]
                   /\ UNCHANGED pc
              ELSE /\ pc' = [pc EXCEPT ![w] =
                               [op |-> "revoke_identity", agent_id |-> AgentId(n),
                                data |-> [identities EXCEPT ![i] =
                                             Revoked(identities[i], reason)]]]
                   /\ UNCHANGED last
    /\ UNCHANGED <<now, next_id, identities, credentials, delegations,
                   compliance, audit_log, reputation, provenance_entries, fs, tokens, acked, cache, anchors, ledger>>

UpdateReputationLoad(w) ==
    /\ pc[w] = Idle
    /\ \E n \in ConcTargets, score \in Scores :
          LET i == FirstIndex(identities, "agent_id", AgentId(n))
          IN  /\ i # 0
              /\ pc' = [pc EXCEPT ![w] =
                           [op |-> "update_reputation", agent_id |-> AgentId(n),
                            data |-> [identities EXCEPT ![i] =
                                         SetField(@, "reputation_score", score)]]]
    /\ UNCHANGED <<now, next_id, identities, credentials, delegations,
                   compliance, audit_log, reputation, provenance_entries, last, fs, tokens, acked, cache, anchors, ledger>>

UpdateComplianceRefLoad(w) ==
    /\ pc[w] = Idle
    /\ \E n \in ConcTargets :
          LET i == FirstIndex(identities, "agent_id", AgentId(n))
          IN  /\ i # 0
              /\ pc' = [pc EXCEPT ![w] =
                           [op |-> "update_compliance_ref", agent_id |-> AgentId(n),
                            data |-> [identities EXCEPT ![i] =
                                         SetField(@, "eu_compliance", <<"comp", n>>)]]]
    /\ UNCHANGED <<now, next_id, identities, credentials, delegations,
                   compliance, audit_log, reputation, provenance_entries, last, fs, tokens, acked, cache, anchors, ledger>>

IdentityOps ==
    {"create_identity", "revoke_identity", "update_reputation",
     "update_compliance_ref"}

\* save_identities(data) and the return to the caller
SaveIdentities(w) ==
    /\ pc[w].op \in IdentityOps
    /\ identities' = pc[w].data
    /\ acked' = acked \cup {<<pc[w].op, pc[w].agent_id>>}
    /\ last' = [op |-> pc[w].op, agent_id |-> pc[w].agent_id,
                ret |-> pc[w].agent_id]
    /\ pc' = [pc EXCEPT ![w] = Idle]
    /\ UNCHANGED <<now, next_id, credentials, delegations, compliance,
                   audit_log, reputation, provenance_entries, fs, tokens, cache, anchors, ledger>>

CreateIdentityStart == \E w \in Workers : CreateIdentityLoad(w)

RevokeIdentityStart == \E w \in Workers : RevokeIdentityLoad(w)

UpdateReputationStart == \E w \in Workers : UpdateReputationLoad(w)

UpdateComplianceRefStart == \E w \in Workers : UpdateComplianceRefLoad(w)

IdentityCallDone == \E w \in Workers : SaveIdentities(w)

NextIdentityConc ==
    \/ CreateIdentityStart
    \/ RevokeIdentityStart
    \/ UpdateReputationStart
    \/ UpdateComplianceRefStart
    \/ IdentityCallDone

SpecIdentityConc == Init /\ [][NextIdentityConc]_vars

\* C6: writes to one collection are linearizable: once the concurrent calls
\* on identities.json have all returned, the file holds the effect of every
\* call that returned success: every created identity is stored and every
\* revoked identity is stored with revoked = true.
C6_IdentityWritesLinearizable ==
    (\A w \in Workers : pc[w] = Idle) =>
        \A x \in acked :
            /\ x[1] = "create_identity" => GetIdentity(identities, x[2]) # <<>>
            /\ x[1] = "revoke_identity" =>
                  /\ GetIdentity(identities, x[2]) # <<>>
                  /\ GetIdentity(identities, x[2]).revoked = TRUE

\* ---------------------------------------------------------------------
\* Compliance service with calls served in parallel.
\* generate_declaration_of_conformity reads the profile and the assessment
\* and checks the prerequisites (compliance_service.py 264-315), and only
\* then loads compliance.json again, appends the declaration built from the
\* profile it read first, saves, and issues the credential (374-399).  No
\* lock is held from the check to the write, so other calls take effect in
\* between.

\* the prerequisite check, on the profile and assessment as read
GenerateDeclarationCheck(w) ==
    /\ pc[w] = Idle
    /\ \E agent_id \in ComplianceAgents :
          LET profile == GetComplianceProfile(compliance, agent_id)
              error == DeclarationError(profile, compliance)
              assess_id == profile.conformity.assessment_id
              assess_record == IF assess_id # <<>>
                               THEN FindAssessment(compliance, assess_id)
                               ELSE <<>>
          IN  IF error # ""
              THEN /\ last' = [op |-> "generate_declaration_of_conformity",
                               agent_id |-> agent_id, ret |-> "error",
                               error |-> error,
                               pre |-> [compliance |-> compliance,
                                        credentials |-> credentials]]
                   /\ UNCHANGED pc
              ELSE /\ Len(compliance.declarations) < MaxDeclarations
                   /\ pc' = [pc EXCEPT ![w] =
                                [op |-> "generate_declaration_of_conformity",
                                 agent_id |-> agent_id,
                                 profile |-> profile,
                                 assess_record |-> assess_record]]
                   /\ UNCHANGED last
    /\ UNCHANGED <<now, next_id, identities, credentials, delegations,
                   compliance, audit_log, reputation, provenance_entries, fs, tokens, acked, cache, anchors, ledger>>

\* the write: load_compliance, append, save_compliance, issue_credential
GenerateDeclarationWrite(w) ==
    /\ pc[w].op = "generate_declaration_of_conformity"
    /\ LET declaration == NewDeclaration(next_id + 1, pc[w].profile,
                                         pc[w].assess_record)
       IN  /\ compliance' = WithDeclaration(compliance, declaration)
           /\ credentials' =
                  Append(credentials,
                         ComplianceCredential(next_id + 2, pc[w].profile,
                                              declaration.declaration_id))
    /\ next_id' = next_id + 2
    /\ last' = [op |-> "generate_declaration_of_conformity",
                agent_id |-> pc[w].agent_id, ret |-> "ok",
                pre |-> [compliance |-> compliance,
                         credentials |-> credentials]]
    /\ pc' = [pc EXCEPT ![w] = Idle]
    /\ UNCHANGED <<now, identities, delegations, audit_log, reputation, provenance_entries, fs, tokens, acked, cache, anchors, ledger>>

GenerateDeclarationStart == \E w \in Workers : GenerateDeclarationCheck(w)

GenerateDeclarationDone == \E w \in Workers : GenerateDeclarationWrite(w)

NextComplianceConc ==
    \/ CreateComplianceProfile
    \/ UpdateComplianceProfile
    \/ RecordConformityAssessment
    \/ GenerateDeclarationStart
    \/ GenerateDeclarationDone

SpecComplianceConc == InitCompliance /\ [][NextComplianceConc]_vars

\* C8: generate_declaration_of_conformity is atomic with respect to
\* concurrent changes of the compliance collection: whenever a declaration
\* is written, the profile and assessment stored at that moment satisfy the
\* gate.
C8_DeclarationWrittenOverGate ==
    (GeneratedDeclarationCall /\ last.ret = "ok") =>
        GateNonEmpty(last.pre.compliance, last.agent_id)

\* ---------------------------------------------------------------------
\* Safe store (src/config.py): _safe_load and _safe_save on the files of the
\* data directory.  fs maps each existing path to its text.  A path is the
\* sequence of the dot-separated parts of its file name (identities.json is
\* <<"identities", "json">>), so that Path.with_suffix is computed; a text is
\* the sequence of the pieces json.dump writes, so that a write cut short
\* leaves a proper prefix, which does not parse.

IDENTITIES_FILE == <<"identities", "json">>

\* Path.with_suffix: the last suffix of the name is replaced
WithSuffix(filepath, suffix) == SubSeq(filepath, 1, Len(filepath) - 1) \o suffix

BackupPath(filepath) == WithSuffix(filepath, <<"json", "bak">>)

TempPath_InPlace(filepath) == filepath

TempPath(filepath) == WithSuffix(filepath, <<"json", "tmp">>)

\* filepath.with_suffix(f".corrupted.{int(time.time())}")
CorruptedPath(filepath, t) == WithSuffix(filepath, <<"corrupted", t>>)

Exists(f, path) == path \in DOMAIN f

NoFile == <<"ENOENT">>

Content(f, path) == IF Exists(f, path) THEN f[path] ELSE NoFile

WriteFile(f, path, text) ==
    [q \in DOMAIN f \cup {path} |-> IF q = path THEN text ELSE f[q]]

RemoveFile(f, path) == [q \in DOMAIN f \ {path} |-> f[q]]

\* shutil.move / Path.replace: the target is replaced in one step
MoveFile(f, src, dst) ==
    IF src = dst THEN f ELSE RemoveFile(WriteFile(f, dst, f[src]), src)

JsonDump(data) == <<"{", data, "}">>

Parses(text) == Len(text) = 3 /\ text[1] = "{" /\ text[3] = "}"

JsonLoad(text) == text[2]

\* what a write or copy of text leaves behind when it is cut short
ProperPrefixes(text) == {SubSeq(text, 1, k) : k \in 0..(Len(text) - 1)}

IdentitiesDefault == [agents |-> <<>>]

\* _safe_load without the attempt to read the backup
SafeLoad_NoBackup(f, filepath, default, t) ==
    IF ~Exists(f, filepath)
    THEN [data |-> default, fs |-> f, source |-> "missing"]
    ELSE IF Parses(f[filepath])
    THEN [data |-> JsonLoad(f[filepath]), fs |-> f, source |-> "file"]
    ELSE [data |-> default,
          fs |-> MoveFile(f, filepath, CorruptedPath(filepath, t)),
          source |-> "quarantine"]

\* _safe_load at time t on the files f: the data returned, the files
\* afterwards, and where the data came from
SafeLoad(f, filepath, default, t) ==
    IF ~Exists(f, filepath)
    THEN [data |-> default, fs |-> f, source |-> "missing"]
    ELSE IF Parses(f[filepath])
    THEN [data |-> JsonLoad(f[filepath]), fs |-> f, source |-> "file"]
    ELSE IF Exists(f, BackupPath(filepath)) /\ Parses(f[BackupPath(filepath)])
    THEN [data |-> JsonLoad(f[BackupPath(filepath)]), fs |-> f,
          source |-> "backup"]
    ELSE [data |-> default,
          fs |-> MoveFile(f, filepath, CorruptedPath(filepath, t)),
          source |-> "quarantine"]

SaveSteps == {"backup", "temp", "rename"}

\* the FileLock of identities.json is held by a worker inside _safe_save
LockFree == \A w \in Workers : ~(pc[w].op = "save_identities")

LoadRecord(r) ==
    [op |-> "load", pre_fs |-> fs, data |-> r.data, source |-> r.source,
     t |-> now]

\* get_identity: load_identities and a search, nothing written back
StoreGetIdentity ==
    /\ LockFree
    /\ LET r == SafeLoad(fs, IDENTITIES_FILE, IdentitiesDefault, now)
       IN  /\ fs' = r.fs
           /\ last' = LoadRecord(r)
    /\ UNCHANGED <<now, next_id, identities, credentials, delegations,
                   compliance, audit_log, reputation, provenance_entries, pc, tokens, acked, cache, anchors, ledger>>

\* create_identity up to load_identities and the append in memory
StoreCreateIdentityLoad(w) ==
    /\ pc[w] = Idle
    /\ LockFree
    /\ next_id < MaxIds
    /\ \E display_name \in Names, expiry_days \in ExpiryDays :
          LET r == SafeLoad(fs, IDENTITIES_FILE, IdentitiesDefault, now)
              uait == NewUait(next_id + 1, display_name, expiry_days)
          IN  /\ fs' = r.fs
              /\ last' = LoadRecord(r)
              /\ pc' = [pc EXCEPT ![w] =
                           [op |-> "create_identity", source |-> r.source,
                            uait |-> uait,
                            data |-> [r.data EXCEPT !.agents = Append(@, uait)]]]
    /\ next_id' = next_id + 1
    /\ UNCHANGED <<now, identities, credentials, delegations, compliance,
                   audit_log, reputation, provenance_entries, tokens, acked, cache, anchors, ledger>>

\* _safe_save: the lock is taken
SaveBegin(w) ==
    /\ pc[w].op = "create_identity"
    /\ LockFree
    /\ pc' = [pc EXCEPT ![w] =
                 [op |-> "save_identities", step |-> "backup",
                  source |-> pc[w].source, uait |-> pc[w].uait,
                  data |-> pc[w].data,
                  prev |-> Content(fs, IDENTITIES_FILE)]]
    /\ last' = [op |-> "saving"]
    /\ UNCHANGED <<now, next_id, identities, credentials, delegations,
                   compliance, audit_log, reputation, provenance_entries, fs, tokens, acked, cache, anchors, ledger>>

\* if filepath.exists(): shutil.copy2(filepath, backup)
SaveBackup(w) ==
    /\ pc[w].op = "save_identities" /\ pc[w].step = "backup"
    /\ fs' = IF Exists(fs, IDENTITIES_FILE)
             THEN WriteFile(fs, BackupPath(IDENTITIES_FILE), fs[IDENTITIES_FILE])
             ELSE fs
    /\ pc' = [pc EXCEPT ![w].step = "temp"]
    /\ last' = [op |-> "saving"]
    /\ UNCHANGED <<now, next_id, identities, credentials, delegations,
                   compliance, audit_log, reputation, provenance_entries, tokens, acked, cache, anchors, ledger>>

\* with open(temp, "w") as f: json.dump(data, f)
SaveTemp(w) ==
    /\ pc[w].op = "save_identities" /\ pc[w].step = "temp"
    /\ fs' = WriteFile(fs, TempPath(IDENTITIES_FILE), JsonDump(pc[w].data))
    /\ pc' = [pc EXCEPT ![w].step = "rename"]
    /\ last' = [op |-> "saving"]
    /\ UNCHANGED <<now, next_id, identities, credentials, delegations,
                   compliance, audit_log, reputation, provenance_entries, tokens, acked, cache, anchors, ledger>>

\* temp.replace(filepath), the lock is released and create_identity returns
SaveRename(w) ==
    /\ pc[w].op = "save_identities" /\ pc[w].step = "rename"
    /\ fs' = MoveFile(fs, TempPath(IDENTITIES_FILE), IDENTITIES_FILE)
    /\ last' = [op |-> "save", prev |-> pc[w].prev,
                new |-> JsonDump(pc[w].data), source |-> pc[w].source,
                uait |-> pc[w].uait]
    /\ pc' = [pc EXCEPT ![w] = Idle]
    /\ UNCHANGED <<now, next_id, identities, credentials, delegations,
                   compliance, audit_log, reputation, provenance_entries, tokens, acked, cache, anchors, ledger>>

\* the process is stopped inside _safe_save: the copy or the write under way
\* is cut short, the lock is released
SaveInterrupted(w) ==
    /\ pc[w].op = "save_identities"
    /\ \/ /\ pc[w].step = "backup"
          /\ Exists(fs, IDENTITIES_FILE)
          /\ \E text \in ProperPrefixes(fs[IDENTITIES_FILE]) :
                fs' = WriteFile(fs, BackupPath(IDENTITIES_FILE), text)
       \/ /\ pc[w].step = "temp"
          /\ \E text \in ProperPrefixes(JsonDump(pc[w].data)) :
                fs' = WriteFile(fs, TempPath(IDENTITIES_FILE), text)
       \/ /\ pc[w].step \in SaveSteps
          /\ UNCHANGED fs
    /\ last' = [op |-> "save_interrupted", prev |-> pc[w].prev,
                new |-> JsonDump(pc[w].data)]
    /\ pc' = [pc EXCEPT ![w] = Idle]
    /\ UNCHANGED <<now, next_id, identities, credentials, delegations,
                   compliance, audit_log, reputation, provenance_entries, tokens, acked, cache, anchors, ledger>>

\* damage from outside the program while no call is under way: the file or
\* its backup is found truncated
DamageFile ==
    /\ \A w \in Workers : pc[w] = Idle
    /\ \E path \in {IDENTITIES_FILE, BackupPath(IDENTITIES_FILE)} :
          /\ Exists(fs, path)
          /\ \E text \in ProperPrefixes(fs[path]) :
                /\ text # fs[path]
                /\ fs' = WriteFile(fs, path, text)
    /\ last' = NoCall
    /\ UNCHANGED <<now, next_id, identities, credentials, delegations,
                   compliance, audit_log, reputation, provenance_entries, pc, tokens, acked, cache, anchors, ledger>>

StoreCreateIdentity == \E w \in Workers : StoreCreateIdentityLoad(w)

SaveStart == \E w \in Workers : SaveBegin(w)

SaveBackupDone == \E w \in Workers : SaveBackup(w)

SaveTempDone == \E w \in Workers : SaveTemp(w)

SaveDone == \E w \in Workers : SaveRename(w)

SaveCrash == \E w \in Workers : SaveInterrupted(w)

NextStore ==
    \/ StoreGetIdentity
    \/ StoreCreateIdentity
    \/ SaveStart
    \/ SaveBackupDone
    \/ SaveTempDone
    \/ SaveDone
    \/ SaveCrash
    \/ DamageFile
    \/ Tick

SpecStore == Init /\ [][NextStore]_vars

\* ---------------------------------------------------------------------
\* C9: a save that is interrupted at any step leaves the destination with
\* the complete previous contents or the complete new contents, never a
\* partial write; after a completed save the file holds the new contents and
\* the .bak file holds the previous contents.
C9_SaveAtomic ==
    /\ \A w \in Workers :
          pc[w].op = "save_identities" =>
              Content(fs, IDENTITIES_FILE) = pc[w].prev
    /\ last.op = "save_interrupted" =>
          Content(fs, IDENTITIES_FILE) \in {last.prev, last.new}
    /\ last.op = "save" =>
          /\ Content(fs, IDENTITIES_FILE) = last.new
          /\ Parses(fs[IDENTITIES_FILE])
          /\ last.prev # NoFile =>
                Content(fs, <<"identities", "json", "bak">>) = last.prev

\* a save over an existing file was cut short while the temp file was being
\* written
C9_Witness ==
    /\ last.op = "save_interrupted"
    /\ last.prev # NoFile
    /\ Exists(fs, <<"identities", "json", "tmp">>)
    /\ ~Parses(fs[<<"identities", "json", "tmp">>])

\* the load policy, the corrupted file being moved to the path quarantine
LoadPolicy(quarantine) ==
    LET f == last.pre_fs
        file == IDENTITIES_FILE
        bak == <<"identities", "json", "bak">>
    IN  IF ~Exists(f, file)
        THEN last.data = IdentitiesDefault /\ fs = f
        ELSE IF Parses(f[file])
        THEN last.data = JsonLoad(f[file]) /\ fs = f
        ELSE IF Exists(f, bak) /\ Parses(f[bak])
        THEN last.data = JsonLoad(f[bak]) /\ fs = f
        ELSE /\ last.data = IdentitiesDefault
             /\ ~Exists(fs, file)
             /\ Content(fs, quarantine) = f[file]
             /\ \A path \in DOMAIN f \ {file, quarantine} :
                    Content(fs, path) = f[path]

\* the operation that loaded the default after a quarantine has succeeded
\* against it: the file holds exactly what it stored
CallSucceedsAfterQuarantine ==
    (last.op = "save" /\ last.source = "quarantine") =>
        /\ Parses(fs[IDENTITIES_FILE])
        /\ JsonLoad(fs[IDENTITIES_FILE]) = [agents |-> <<last.uait>>]

\* C10 as stated: a load returns the file's contents when it parses, else
\* the backup's when that parses, else it moves the file to
\* <file>.corrupted.<epoch> and returns the default, on which the calling
\* operation succeeds; a missing file yields the default.
C10_LoadPolicyFileName ==
    /\ last.op = "load" =>
          LoadPolicy(IDENTITIES_FILE \o <<"corrupted", last.t>>)
    /\ CallSucceedsAfterQuarantine

\* C10 amended: the same, the corrupted file being moved to the file's name
\* with its .json suffix replaced: identities.json goes to
\* identities.corrupted.<epoch>.
C10_LoadPolicyStem ==
    /\ last.op = "load" =>
          LoadPolicy(<<"identities", "corrupted", last.t>>)
    /\ CallSucceedsAfterQuarantine

\* a call has stored its result after its load quarantined a corrupted file
\* whose backup did not parse either
C10_Witness ==
    /\ last.op = "save"
    /\ last.source = "quarantine"
    /\ \E t \in 0..MaxTime :
          /\ Exists(fs, <<"identities", "corrupted", t>>)
          /\ ~Parses(fs[<<"identities", "corrupted", t>>])

\* ---------------------------------------------------------------------
\* C11: verify_identity(a).valid is true exactly when the checks exists,
\* not_revoked, not_expired and signature_valid are all true; for an unknown
\* agent_id it returns valid = false with exists = false.
C11_VerifyIdentityValidIffChecks ==
    \A n \in 1..(MaxIds + 1) :
        LET v == VerifyIdentity(identities, AgentId(n))
        IN  IF GetIdentity(identities, AgentId(n)) = <<>>
            THEN /\ v.valid = FALSE
                 /\ v.checks.exists = FALSE
            ELSE /\ DOMAIN v.checks =
                        {"exists", "not_revoked", "not_expired", "signature_valid"}
                 /\ v.valid = (/\ v.checks.exists
                               /\ v.checks.not_revoked
                               /\ v.checks.not_expired
                               /\ v.checks.signature_valid)

\* one identity verifies valid, another is stored and expired but not
\* revoked, and a third id is unknown
C11_Witness ==
    /\ \E n \in 1..MaxIds : VerifyIdentity(identities, AgentId(n)).valid
    /\ \E n \in 1..MaxIds :
          LET v == VerifyIdentity(identities, AgentId(n))
          IN  /\ v.checks.exists
              /\ v.checks.not_revoked
              /\ ~v.checks.not_expired
              /\ ~v.valid
    /\ GetIdentity(identities, AgentId(MaxIds + 1)) = <<>>

\* ---------------------------------------------------------------------
\* Credential service: presentations and verification of credentials handed
\* in by a caller (services/credential_service.py 233-443).

MaxPresentations == 1

HasType(types, t) == \E i \in 1..Len(types) : types[i] = t

\* all(v for v in checks.values() if isinstance(v, bool))
AllChecks(checks) == \A k \in DOMAIN checks : checks[k]

VpId(n) == <<"urn:uuid", n>>

\* a presentation signed before domain and challenge are put in
NewPresentation_SignsEarly(n, agent_id, creds, audience_did, challenge) ==
    LET base == SetField([id |-> VpId(n),
                          type |-> <<"VerifiablePresentation">>,
                          holder |-> agent_id,
                          verifiableCredential |-> creds],
                         "@context",
                         <<"https://www.w3.org/2018/credentials/v1",
                           "https://w3id.org/security/suites/ed25519-2020/v1">>)
        with_domain == IF audience_did # "" THEN SetField(base, "domain", audience_did)
                       ELSE base
        vp == IF challenge # "" THEN SetField(with_domain, "challenge", challenge)
              ELSE with_domain
        proof == [type |-> "Ed25519Signature2020",
                  created |-> now,
                  verificationMethod |-> ServerDid \o DidKeyFragment(ServerDid),
                  proofPurpose |-> "authentication",
                  proofValue |-> SignJsonPayload(ServerKey, base)]
        with_challenge == IF challenge # "" THEN SetField(proof, "challenge", challenge)
                          ELSE proof
    IN  SetField(vp, "proof",
                 IF audience_did # "" THEN SetField(with_challenge, "domain", audience_did)
                 ELSE with_challenge)

\* the presentation create_verifiable_presentation builds and signs
NewPresentation(n, agent_id, creds, audience_did, challenge) ==
    LET base == SetField([id |-> VpId(n),
                          type |-> <<"VerifiablePresentation">>,
                          holder |-> agent_id,
                          verifiableCredential |-> creds],
                         "@context",
                         <<"https://www.w3.org/2018/credentials/v1",
                           "https://w3id.org/security/suites/ed25519-2020/v1">>)
        with_domain == IF audience_did # "" THEN SetField(base, "domain", audience_did)
                       ELSE base
        vp == IF challenge # "" THEN SetField(with_domain, "challenge", challenge)
              ELSE with_domain
        proof == [type |-> "Ed25519Signature2020",
                  created |-> now,
                  verificationMethod |-> ServerDid \o DidKeyFragment(ServerDid),
                  proofPurpose |-> "authentication",
                  proofValue |-> SignJsonPayload(ServerKey, vp)]
        with_challenge == IF challenge # "" THEN SetField(proof, "challenge", challenge)
                          ELSE proof
    IN  SetField(vp, "proof",
                 IF audience_did # "" THEN SetField(with_challenge, "domain", audience_did)
                 ELSE with_challenge)

\* the signature check verify_presentation and verify_credential_external
\* run on an object: the key is taken from the proof's verification method,
\* from fallback_did when that has no fragment
ProofValid(object, payload, fallback_did) ==
    LET proof == Get(object, "proof", <<>>)
        proof_value == Get(proof, "proofValue", <<>>)
        vm == Get(proof, "verificationMethod", <<>>)
        issuer_did == IF HasFragment(vm) THEN BeforeFragment(vm) ELSE fallback_did
    IN  IF proof_value # <<>>
        THEN IF DidKeyValid(issuer_did)
             THEN VerifyJsonSignature(DidKeyToPublicKey(issuer_did), payload,
                                      proof_value)
             ELSE FALSE
        ELSE FALSE

VerifyPresentation_SignatureUnchecked(presentation) ==
    IF ~HasType(Get(presentation, "type", <<>>), "VerifiablePresentation")
    THEN [valid |-> FALSE, reason |-> "Not a VerifiablePresentation"]
    ELSE LET holder == Get(presentation, "holder", "")
             creds == Get(presentation, "verifiableCredential", <<>>)
             checks ==
                 [structure_valid |-> TRUE,
                  vp_signature_valid |-> TRUE,
                  credentials_valid |->
                      \A i \in 1..Len(creds) :
                          ProofValid(creds[i], CredentialPayload(creds[i]),
                                     ServerDid),
                  holder_matches_subjects |->
                      \A i \in 1..Len(creds) :
                          Get(Get(creds[i], "credentialSubject", <<>>), "id", <<>>)
                              = holder]
         IN  [valid |-> AllChecks(checks),
              holder |-> holder,
              credential_count |-> Len(creds),
              checks |-> checks]

\* verify_presentation that also looks every nested credential up in the
\* store and refuses the revoked ones
VerifyPresentation_ChecksStore(presentation) ==
    IF ~HasType(Get(presentation, "type", <<>>), "VerifiablePresentation")
    THEN [valid |-> FALSE, reason |-> "Not a VerifiablePresentation"]
    ELSE LET holder == Get(presentation, "holder", "")
             proof == Get(presentation, "proof", <<>>)
             creds == Get(presentation, "verifiableCredential", <<>>)
             required ==
                 [structure_valid |-> TRUE,
                  vp_signature_valid |->
                      ProofValid(presentation, Without(presentation, {"proof"}),
                                 ServerDid),
                  credentials_valid |->
                      \A i \in 1..Len(creds) :
                          /\ ProofValid(creds[i], CredentialPayload(creds[i]),
                                        ServerDid)
                          /\ \A j \in 1..Len(credentials) :
                                credentials[j].id = creds[i].id =>
                                    ~credentials[j].credentialStatus.revoked,
                  holder_matches_subjects |->
                      \A i \in 1..Len(creds) :
                          Get(Get(creds[i], "credentialSubject", <<>>), "id", <<>>)
                              = holder]
             with_challenge ==
                 IF Get(proof, "challenge", "") # ""
                 THEN SetField(required, "challenge_present", TRUE) ELSE required
             checks ==
                 IF Get(proof, "domain", "") # ""
                 THEN SetField(with_challenge, "domain_present", TRUE)
                 ELSE with_challenge
         IN  [valid |-> AllChecks(checks),
              holder |-> holder,
              credential_count |-> Len(creds),
              checks |-> checks]

\* verify_presentation
VerifyPresentation(presentation) ==
    IF ~HasType(Get(presentation, "type", <<>>), "VerifiablePresentation")
    THEN [valid |-> FALSE, reason |-> "Not a VerifiablePresentation"]
    ELSE LET holder == Get(presentation, "holder", "")
             proof == Get(presentation, "proof", <<>>)
             creds == Get(presentation, "verifiableCredential", <<>>)
             required ==
                 [structure_valid |-> TRUE,
                  vp_signature_valid |->
                      ProofValid(presentation, Without(presentation, {"proof"}),
                                 ServerDid),
                  credentials_valid |->
                      \A i \in 1..Len(creds) :
                          ProofValid(creds[i], CredentialPayload(creds[i]),
                                     ServerDid),
                  holder_matches_subjects |->
                      \A i \in 1..Len(creds) :
                          Get(Get(creds[i], "credentialSubject", <<>>), "id", <<>>)
                              = holder]
             with_challenge ==
                 IF Get(proof, "challenge", "") # ""
                 THEN SetField(required, "challenge_present", TRUE) ELSE required
             checks ==
                 IF Get(proof, "domain", "") # ""
                 THEN SetField(with_challenge, "domain_present", TRUE)
                 ELSE with_challenge
         IN  [valid |-> AllChecks(checks),
              holder |-> holder,
              credential_count |-> Len(creds),
              checks |-> checks]

\* verify_credential_external with credentialSubject treated as unsigned
VerifyCredentialExternal_SubjectUnsigned(creds, credential) ==
    IF ~HasType(Get(credential, "type", <<>>), "VerifiableCredential")
    THEN [valid |-> FALSE, reason |-> "Not a VerifiableCredential"]
    ELSE LET cred_id == Get(credential, "id", <<>>)
             local_cred == IF cred_id # <<>> THEN FindCredential(creds, cred_id)
                           ELSE <<>>
             checks ==
                 [structure_valid |-> TRUE,
                  not_revoked |->
                      IF local_cred # <<>>
                      THEN ~Get(Get(local_cred, "credentialStatus", <<>>),
                                "revoked", FALSE)
                      ELSE TRUE,
                  not_expired |-> now < credential.expirationDate,
                  signature_valid |->
                      \E subject \in {credential.credentialSubject,
                                      [credential.credentialSubject
                                          EXCEPT !.role = "tester"]} :
                          ProofValid(credential,
                                     CredentialPayload(
                                         [credential EXCEPT
                                             !.credentialSubject = subject]),
                                     <<>>)]
         IN  [valid |-> AllChecks(checks), credential_id |-> cred_id,
              checks |-> checks]

\* verify_credential_external: the credential handed in is checked against
\* its own proof, its revocation against the stored copy if there is one
VerifyCredentialExternal(creds, credential) ==
    IF ~HasType(Get(credential, "type", <<>>), "VerifiableCredential")
    THEN [valid |-> FALSE, reason |-> "Not a VerifiableCredential"]
    ELSE LET cred_id == Get(credential, "id", <<>>)
             local_cred == IF cred_id # <<>> THEN FindCredential(creds, cred_id)
                           ELSE <<>>
             checks ==
                 [structure_valid |-> TRUE,
                  not_revoked |->
                      IF local_cred # <<>>
                      THEN ~Get(Get(local_cred, "credentialStatus", <<>>),
                                "revoked", FALSE)
                      ELSE TRUE,
                  not_expired |-> now < credential.expirationDate,
                  signature_valid |->
                      ProofValid(credential, CredentialPayload(credential), <<>>)]
         IN  [valid |-> AllChecks(checks), credential_id |-> cred_id,
              checks |-> checks]

\* what a holder may have done to a credential before handing it in
Tampers == {"none", "role", "issuer_name", "expirationDate", "id", "type", "status"}

Tampered(cred, tamper) ==
    IF tamper = "role" THEN [cred EXCEPT !.credentialSubject.role = "admin"]
    ELSE IF tamper = "issuer_name" THEN [cred EXCEPT !.issuer.name = "Other"]
    ELSE IF tamper = "expirationDate" THEN [cred EXCEPT !.expirationDate = @ + 1]
    ELSE IF tamper = "id" THEN [cred EXCEPT !.id = <<"urn:uuid", 0>>]
    ELSE IF tamper = "type" THEN [cred EXCEPT !.type = <<"Badge">>]
    ELSE IF tamper = "status" THEN [cred EXCEPT !.credentialStatus.revoked = FALSE]
    ELSE cred

CredentialIdLists ==
    {<<>>} \cup {<<CredId(n)>> : n \in 1..MaxIds}
           \cup {<<CredId(n), CredId(n + 1)>> : n \in 1..(MaxIds - 1)}

\* audience_did and challenge: both left empty, or both given
Audiences == {<<"", "">>, <<"did:web:verifier", "nonce">>}

CreateVerifiablePresentation ==
    /\ \E agent_id \in Subjects, credential_ids \in CredentialIdLists,
          audience \in Audiences :
          LET audience_did == audience[1]
              challenge == audience[2]
              found == [i \in 1..Len(credential_ids) |->
                            FindCredential(credentials, credential_ids[i])]
              error == \E i \in 1..Len(found) :
                          \/ found[i] = <<>>
                          \/ Get(Get(found[i], "credentialSubject", <<>>), "id", <<>>)
                                # agent_id
          IN  IF error
              THEN /\ last' = [op |-> "create_verifiable_presentation",
                               ret |-> "error"]
                   /\ UNCHANGED next_id
              ELSE /\ next_id < MaxIds + MaxPresentations
                   /\ next_id' = next_id + 1
                   /\ last' = [op |-> "create_verifiable_presentation",
                               ret |-> "ok",
                               vp |-> NewPresentation(next_id + 1, agent_id, found,
                                                      audience_did, challenge)]
    /\ UNCHANGED <<now, identities, credentials, delegations, compliance,
                   audit_log, reputation, provenance_entries, pc, fs, tokens, acked, cache, anchors, ledger>>

\* verify_credential_external on a stored credential as altered by its holder
VerifyCredentialExternalCall ==
    /\ \E i \in 1..Len(credentials), tamper \in Tampers :
          last' = [op |-> "verify_credential_external",
                   issued |-> credentials[i],
                   credential |-> Tampered(credentials[i], tamper),
                   ret |-> VerifyCredentialExternal(
                               credentials, Tampered(credentials[i], tamper))]
    /\ UNCHANGED <<now, next_id, identities, credentials, delegations,
                   compliance, audit_log, reputation, provenance_entries, pc, fs, tokens, acked, cache, anchors, ledger>>

NextPresentation ==
    \/ CreateIdentity
    \/ IssueCredential
    \/ CreateVerifiablePresentation
    \/ VerifyCredentialExternalCall
    \/ Tick

SpecPresentation == Init /\ [][NextPresentation]_vars

\* C12: immediately after creation every signed entity verifies:
\* verify_identity on a just-created identity and verify_credential on a
\* just-issued credential return valid = true with every check true, and
\* verify_presentation on a just-created presentation returns valid = true.
C12_FreshEntitiesVerify ==
    /\ last.op = "create_identity" =>
          LET v == VerifyIdentity(identities, last.ret)
          IN  v.valid /\ AllChecks(v.checks) /\ v.checks.signature_valid
    /\ last.op = "issue_credential" =>
          LET v == VerifyCredential(credentials, last.ret)
          IN  v.valid /\ AllChecks(v.checks) /\ v.checks.signature_valid
    /\ (last.op = "create_verifiable_presentation" /\ last.ret = "ok") =>
          LET v == VerifyPresentation(last.vp)
          IN  v.valid /\ v.checks.vp_signature_valid /\ v.checks.credentials_valid

\* a presentation with a challenge was made of a stored credential, an
\* identity having been created before
C12_Witness ==
    /\ last.op = "create_verifiable_presentation"
    /\ last.ret = "ok"
    /\ Len(last.vp.verifiableCredential) = 1
    /\ "challenge" \in DOMAIN last.vp
    /\ Len(identities) = 1

SignedFieldsChanged ==
    CredentialPayload(last.credential) # CredentialPayload(last.issued)

HighRiskSelfError ==
    "High-risk AI systems require third_party conformity assessment (Article 43)."

CreateComplianceProfileLoad(w) ==
    /\ pc[w] = Idle
    /\ \E agent_id \in ComplianceAgents,
          risk_category \in {"limited", "high", "unacceptable", "bogus"} :
          LET agent == GetIdentity(identities, agent_id)
              error ==
                  IF risk_category \notin VALID_RISK_CATEGORIES
                  THEN "Invalid risk_category"
                  ELSE IF risk_category = "unacceptable"
                  THEN "Unacceptable-risk AI systems are prohibited"
                  ELSE IF agent = <<>> THEN "Agent not found"
                  ELSE IF GetComplianceProfile(compliance, agent_id) # <<>>
                  THEN "Compliance profile already exists"
                  ELSE ""
          IN  IF error # ""
              THEN /\ last' = [op |-> "create_compliance_profile",
                               agent_id |-> agent_id,
                               risk_category |-> risk_category,
                               ret |-> "error"]
                   /\ UNCHANGED pc
              ELSE /\ pc' = [pc EXCEPT ![w] =
                                [op |-> "create_compliance_profile",
                                 agent_id |-> agent_id,
                                 risk_category |-> risk_category,
                                 agent |-> agent,
                                 data |-> compliance]]
                   /\ UNCHANGED last
    /\ UNCHANGED <<now, next_id, identities, credentials, delegations,
                   compliance, audit_log, reputation, provenance_entries, fs, tokens, acked, cache, anchors, ledger>>

\* the profile is built and signed, appended to the loaded list, the list is
\* saved over the file, and update_compliance_ref links it to the identity
CreateComplianceProfileSave(w) ==
    /\ pc[w].op = "create_compliance_profile"
    /\ \E intended_purpose \in Texts :
          LET profile == NewProfile(next_id + 1, pc[w].agent,
                                    pc[w].risk_category, intended_purpose,
                                    <<>>, <<>>)
              i == FirstIndex(identities, "agent_id", pc[w].agent_id)
          IN  /\ compliance' = [pc[w].data EXCEPT
                                   !.profiles = Append(@, profile)]
              /\ identities' =
                     IF i = 0 THEN identities
                     ELSE [identities EXCEPT ![i] =
                              SetField(@, "eu_compliance", profile.profile_id)]
    /\ next_id' = next_id + 1
    /\ last' = [op |-> "create_compliance_profile",
                agent_id |-> pc[w].agent_id,
                risk_category |-> pc[w].risk_category,
                ret |-> "ok"]
    /\ pc' = [pc EXCEPT ![w] = Idle]
    /\ UNCHANGED <<now, credentials, delegations, audit_log, reputation, provenance_entries, fs, tokens, acked, cache, anchors, ledger>>

CreateComplianceProfileStart == \E w \in Workers : CreateComplianceProfileLoad(w)

CreateComplianceProfileDone == \E w \in Workers : CreateComplianceProfileSave(w)

MaxProfileIds == 3

NextComplianceCreate ==
    \/ next_id < MaxProfileIds /\ CreateComplianceProfileStart
    \/ CreateComplianceProfileDone
    \/ UpdateComplianceProfile
    \/ RecordConformityAssessment

SpecComplianceCreate == InitCompliance /\ [][NextComplianceCreate]_vars

\* at most one profile per agent_id, and none with risk unacceptable
OneProfilePerAgent(c) ==
    /\ \A i, j \in 1..Len(c.profiles) :
          c.profiles[i].agent_id = c.profiles[j].agent_id => i = j
    /\ \A i \in 1..Len(c.profiles) :
          c.profiles[i].risk_category # "unacceptable"

\* worker w's create_compliance_profile returns in this step
CreateReturns(w) ==
    \/ pc[w].op = "create_compliance_profile" /\ pc'[w] = Idle
    \/ pc[w] = Idle /\ pc' = pc /\ last'.op = "create_compliance_profile"

\* C15: in every reachable state there is at most one compliance profile
\* per agent_id and none with risk unacceptable; a create_compliance_profile
\* that returns while its agent already has a profile, or that asks for
\* unacceptable, returns an error and stores nothing, also when two
\* creations for the same agent run concurrently.
C15_OneProfilePerAgent ==
    [][/\ OneProfilePerAgent(compliance')
       /\ \A w \in Workers :
            (/\ CreateReturns(w)
             /\ \/ GetComplianceProfile(compliance, last'.agent_id) # <<>>
                \/ last'.risk_category = "unacceptable")
            => /\ last'.ret = "error"
               /\ compliance' = compliance]_vars

\* the store never holds two profiles of one agent nor an unacceptable one
C15_StoreHoldsOneProfilePerAgent == OneProfilePerAgent(compliance)

Range(seq) == {seq[i] : i \in 1..Len(seq)}

\* the declarations stored for agent_id that the call before did not find
NewDeclarationsOf(agent_id) ==
    {d \in Range(compliance.declarations) :
        /\ d.agent_id = agent_id
        /\ d \notin Range(last.pre.compliance.declarations)}

\* the stored EUAIActComplianceCredentials of agent_id for declaration_id
ComplianceCredentialsFor(agent_id, declaration_id) ==
    {c \in Range(credentials) :
        /\ HasType(c.type, "EUAIActComplianceCredential")
        /\ c.credentialSubject.id = agent_id
        /\ c.credentialSubject.declaration_id = declaration_id}

DelegationWorker == "w1"

CreateDelegationChained ==
    \E capabilities \in Capabilities, expiry_hours \in ExpiryHours,
       parent_token \in tokens \cup {NoToken} :
        CreateDelegationLoadWith(DelegationWorker, capabilities, expiry_hours,
                                 parent_token)

NextDelegationChain ==
    \/ CreateDelegationChained
    \/ CreateDelegationSave(DelegationWorker)
    \/ RevokeDelegationLoad(DelegationWorker)
    \/ RevokeDelegationSave(DelegationWorker)
    \/ Tick

SpecDelegationChain == Init /\ [][NextDelegationChain]_vars

\* C17: verify_delegation returns valid = false for any token once the
\* current time has reached its exp; a delegation created with
\* expiry_hours = 0 (exp = iat) never verifies valid.
C17_ExpiredDelegationInvalid ==
    \A token \in tokens :
        /\ now >= token.payload.exp =>
              VerifyDelegation(delegations, now, token).valid = FALSE
        /\ token.payload.exp = token.payload.iat =>
              VerifyDelegation(delegations, now, token).valid = FALSE

\* the time has just reached the exp of an unrevoked token that verified
\* valid before, and an unrevoked token of expiry_hours = 0 is held
C17_Witness ==
    /\ \E token \in tokens :
          /\ token.payload.exp = now
          /\ token.payload.iat < now
          /\ VerifyDelegation(delegations, now - 1, token).valid
    /\ \E token \in tokens :
          /\ token.payload.exp = token.payload.iat
          /\ VerifyDelegation(delegations, now, token).reason = "Token has expired"

\* the token's own signature, expiry and jti revocation
OwnSignatureValid(token) ==
    token.signature = <<DidKeyToPublicKey(ServerDid), token.payload>>

OwnJtiRevoked(token) ==
    \E i \in Indices(delegations) :
        /\ delegations[i].jti = token.payload.jti
        /\ delegations[i].revoked

\* every capability of child is one of parent
Attenuated(child, parent) ==
    \A k \in 1..Len(child.payload.att) :
        \E m \in 1..Len(parent.payload.att) :
            child.payload.att[k] = parent.payload.att[m]

RevokeLoads(w, jti) ==
    /\ pc[w] = Idle
    /\ \/ pc'[w].op = "revoke_delegation" /\ pc'[w].jti = jti
       \/ pc' = pc /\ last' # last /\ last'.op = "revoke_delegation"
                   /\ last'.jti = jti

\* the record stored for jti, or <<>>
StoredDelegation(ds, jti) ==
    LET i == FirstIndex(ds, "jti", jti)
    IN  IF i = 0 THEN <<>> ELSE ds[i]

\* C19: revoke_delegation on a jti whose record is already revoked returns
\* an error and leaves the stored record (revoked flag, reason, revocation
\* time) unchanged; on an unknown jti it returns an error and writes
\* nothing.
C19_RevokeRefusedLeavesRecord ==
    [][\A w \in Workers, n \in 1..MaxIds :
          LET stored == StoredDelegation(delegations, Jti(n))
          IN  (/\ RevokeLoads(w, Jti(n))
               /\ stored = <<>> \/ stored.revoked)
              => /\ pc' = pc
                 /\ last'.ret = IF stored = <<>> THEN "error: not found"
                                ELSE "error: already revoked"
                 /\ delegations' = delegations
                 /\ fs' = fs]_vars

\* a second revoke_delegation of a revoked jti was refused, the record
\* keeping its first reason and time
C19_Witness ==
    /\ last.op = "revoke_delegation"
    /\ last.ret = "error: already revoked"
    /\ StoredDelegation(delegations, last.jti).revoked
    /\ StoredDelegation(delegations, last.jti).revoked_at < now

\* the fields of a delegation record, none of which is the token
DelegationRecordFields ==
    {"jti", "issuer", "audience", "capabilities", "created_at", "expires_at",
     "revoked", "revocation_reason", "revoked_at"}

\* record holds plain values only: identifiers, capability names, times, flags
TokenFree(record) ==
    /\ DOMAIN record \subseteq DelegationRecordFields
    /\ record.jti \in {Jti(n) : n \in 1..MaxIds}
    /\ record.issuer = "agent-a"
    /\ record.audience = "agent-b"
    /\ record.capabilities \in Capabilities
    /\ record.created_at \in Nat
    /\ record.expires_at \in Nat
    /\ record.revoked \in BOOLEAN
    /\ "revocation_reason" \in DOMAIN record => record.revocation_reason \in Reasons
    /\ "revoked_at" \in DOMAIN record => record.revoked_at \in Nat

\* C20: in every reachable state no record of the delegations collection
\* contains the token string: a record has no token field and each of its
\* fields is a jti, an agent id, a capability list, a time, a flag or a
\* revocation reason.
C20_NoTokenInDelegationRecords ==
    \A i \in Indices(delegations) : TokenFree(delegations[i])

\* two delegations are on record, their tokens handed out, the second
\* chained to the first, one of them revoked
C20_Witness ==
    /\ Len(delegations) = 2
    /\ \A i \in Indices(delegations) :
          \E token \in tokens : token.payload.jti = delegations[i].jti
    /\ \E token \in tokens : Len(token.payload.prf) = 1
    /\ \E i \in Indices(delegations) : delegations[i].revoked

\* ---------------------------------------------------------------------
\* GDPR erasure (purge_agent_data) over all the collections, with the
\* reputation and provenance stores filled by their services.

MaxInteractions == 2
MaxEntries == 1

OUTCOME_WEIGHTS == {"success", "partial", "failure", "timeout"}

ProvId(n) == <<"prov", n>>

NewInteraction(agent_id, counterparty_id, outcome) ==
    [agent_id |-> agent_id,
     counterparty_id |-> counterparty_id,
     outcome |-> outcome,
     category |-> "general",
     details |-> "",
     timestamp |-> now,
     epoch |-> now]

\* _compute_score: the recency-weighted mean is a function of the outcome and
\* age of each of the agent's interactions, kept here as those pairs
ComputeScore(all_interactions, agent_id) ==
    LET agent_interactions ==
            SelectSeq(all_interactions, LAMBDA i : i.agent_id = agent_id)
    IN  [k \in 1..Len(agent_interactions) |->
            <<agent_interactions[k].outcome, now - agent_interactions[k].epoch>>]

\* data["scores"][agent_id] = score
WithScore(scores, agent_id, score) ==
    [a \in DOMAIN scores \cup {agent_id} |->
        IF a = agent_id THEN score ELSE scores[a]]

PurgeAgents == {AgentId(1), AgentId(2), AgentId(3)}

RecordInteraction ==
    /\ \E agent_id \in Subjects, counterparty_id \in Subjects,
          outcome \in {"success", "failure", "bogus"} :
          IF outcome \notin OUTCOME_WEIGHTS
          THEN /\ last' = [op |-> "record_interaction", ret |-> "error"]
               /\ UNCHANGED reputation
          ELSE /\ agent_id # counterparty_id
               /\ Len(reputation.interactions) < MaxInteractions
               /\ LET interactions == Append(reputation.interactions,
                                             NewInteraction(agent_id,
                                                            counterparty_id,
                                                            outcome))
                      total == Len(SelectSeq(interactions,
                                             LAMBDA i : i.agent_id = agent_id))
                  IN  reputation' =
                          [interactions |-> interactions,
                           scores |-> WithScore(
                               reputation.scores, agent_id,
                               [trust_score |-> ComputeScore(interactions, agent_id),
                                last_updated |-> now,
                                total_interactions |-> total])]
               /\ last' = [op |-> "record_interaction", ret |-> "recorded"]
    /\ UNCHANGED <<now, next_id, identities, credentials, delegations,
                   compliance, audit_log, provenance_entries, pc, fs, tokens,
                   acked, cache, anchors, ledger>>

NewTrainingData(n, agent_id, dataset_name) ==
    SignRecord(
        [entry_id |-> ProvId(n),
         entry_type |-> "training_data",
         agent_id |-> agent_id,
         dataset_name |-> dataset_name,
         source_url |-> "",
         license |-> "",
         data_categories |-> <<>>,
         contains_personal_data |-> FALSE,
         data_governance_measures |-> "",
         recorded_at |-> now,
         recorded_by |-> ServerDid])

\* the identifiers drawn by the calls that filled the stores of InitPurge
PurgeSetupIds == 8

RecordTrainingData ==
    /\ next_id < PurgeSetupIds + MaxEntries
    /\ \E agent_id \in Subjects :
          provenance_entries' =
              Append(provenance_entries,
                     NewTrainingData(next_id + 1, agent_id, "ChatCorpus-v1"))
    /\ next_id' = next_id + 1
    /\ last' = [op |-> "record_training_data", ret |-> ProvId(next_id + 1)]
    /\ UNCHANGED <<now, identities, credentials, delegations, compliance,
                   audit_log, reputation, pc, fs, tokens, acked, cache, anchors, ledger>>

\* the collections as one record, for before/after comparison
Collections ==
    [identities |-> identities,
     compliance_profiles |-> compliance.profiles,
     provenance_entries |-> provenance_entries,
     audit_entries |-> audit_log,
     credentials |-> credentials,
     reputation_interactions |-> reputation.interactions,
     delegations |-> delegations]

\* whether a record of the named collection mentions agent_id
Mentions(category, r, agent_id) ==
    IF category = "credentials" THEN r.credentialSubject.id = agent_id
    ELSE IF category = "reputation_interactions"
    THEN r.agent_id = agent_id \/ r.counterparty_id = agent_id
    ELSE IF category = "delegations"
    THEN r.issuer = agent_id \/ r.audience = agent_id
    ELSE r.agent_id = agent_id

Purged_KeepsCounterparty(category, records, agent_id) ==
    SelectSeq(records,
              LAMBDA r : IF category = "reputation_interactions"
                         THEN r.agent_id # agent_id
                         ELSE ~Mentions(category, r, agent_id))

\* the records of a collection that stay after purge(agent_id)
Purged(category, records, agent_id) ==
    SelectSeq(records, LAMBDA r : ~Mentions(category, r, agent_id))

PurgeAgentData ==
    /\ \E agent_id \in PurgeAgents :
          LET before == Collections
              after == [c \in DOMAIN before |-> Purged(c, before[c], agent_id)]
          IN  /\ identities' = after.identities
              /\ compliance' = [compliance EXCEPT
                                   !.profiles = after.compliance_profiles]
              /\ provenance_entries' = after.provenance_entries
              /\ audit_log' = after.audit_entries
              /\ credentials' = after.credentials
              /\ reputation' = [reputation EXCEPT
                                   !.interactions = after.reputation_interactions]
              /\ delegations' = after.delegations
              /\ last' = [op |-> "purge_agent_data",
                          agent_id |-> agent_id,
                          counts |-> [c \in DOMAIN before |->
                                         Len(before[c]) - Len(after[c])],
                          pre |-> before]
    /\ UNCHANGED <<now, next_id, pc, fs, tokens, acked, cache, anchors, ledger>>

\* two agents, each with an identity, a credential and an audit entry; the
\* first with a compliance profile and a delegation to the second
InitPurge ==
    /\ now = 0
    /\ next_id = PurgeSetupIds
    /\ identities = <<SetField(NewUait(1, "Bot", 1), "eu_compliance", ProfileId(3)),
                      NewUait(2, "Bot", 1)>>
    /\ compliance = [EmptyCompliance EXCEPT !.profiles =
                        <<NewProfile(3, NewUait(1, "Bot", 1), "limited",
                                     <<"x">>, <<"x">>, <<"x">>)>>]
    /\ credentials = <<NewCredential(4, AgentId(1), "AgentIdentityCredential",
                                     "Corp", [role |-> "tester"], 1),
                       NewCredential(5, AgentId(2), "AgentIdentityCredential",
                                     "Corp", [role |-> "tester"], 1)>>
    /\ audit_log = <<NewLogEntry(6, AgentId(1), "inference"),
                     NewLogEntry(7, AgentId(2), "inference")>>
    /\ delegations = <<NewDelegationRecord(8, AgentId(1), AgentId(2),
                                           <<"read">>, 1)>>
    /\ reputation = EmptyReputation
    /\ provenance_entries = <<>>
    /\ last = NoCall
    /\ pc = [w \in Workers |-> Idle]
    /\ fs = <<>>
    /\ tokens = {}
    /\ acked = {}
    /\ cache = <<>>
    /\ anchors = <<>>
    /\ ledger = <<>>

NextPurge ==
    \/ RecordInteraction
    \/ RecordTrainingData
    \/ PurgeAgentData

SpecPurge == InitPurge /\ [][NextPurge]_vars

PurgeCall == last.op = "purge_agent_data"

\* C21: after purge(agent_id) no collection holds a record that mentions
\* agent_id, the records of other agents are as before and in their order,
\* the returned per-category counts are the numbers of records removed, and
\* a get of the agent finds nothing.
C21_PurgeRemovesAgentEverywhere ==
    PurgeCall =>
        /\ \A c \in DOMAIN Collections :
              /\ \A k \in 1..Len(Collections[c]) :
                    ~Mentions(c, Collections[c][k], last.agent_id)
              /\ Collections[c] =
                    SelectSeq(last.pre[c],
                              LAMBDA r : ~Mentions(c, r, last.agent_id))
              /\ last.counts[c] = Len(last.pre[c]) - Len(Collections[c])
        /\ GetIdentity(identities, last.agent_id) = <<>>

\* the first agent, on record in every collection, was purged while the
\* second agent's records stayed
C21_Witness ==
    /\ PurgeCall
    /\ last.agent_id = AgentId(1)
    /\ \A c \in DOMAIN Collections : last.counts[c] >= 1
    /\ Len(identities) = 1
    /\ Len(credentials) = 1

\* ---------------------------------------------------------------------
\* The compliance calls with file operations that may raise (FileLock
\* Timeout after 5 s on a busy store, OSError on write): the exception
\* leaves the handler at that point and the outer except returns {error}.
\* Each action is one whole call; fault names the file operation that
\* raises, "none" when all succeed.

\* bound on the identifiers drawn, failed calls included
MaxComplianceIds == 6

CreateFaults ==
    {"none", "get_identity", "load_compliance", "save_compliance",
     "update_compliance_ref"}

CreateComplianceProfileIO ==
    /\ \E agent_id \in ComplianceAgents, risk_category \in {"limited", "high"},
          fault \in CreateFaults :
          LET agent == GetIdentity(identities, agent_id)
              i == FirstIndex(identities, "agent_id", agent_id)
              profile == NewProfile(next_id + 1, agent, risk_category,
                                    <<"x">>, <<"x">>, <<"x">>)
              refused ==
                  \/ fault \in {"get_identity", "load_compliance"}
                  \/ agent = <<>>
                  \/ GetComplianceProfile(compliance, agent_id) # <<>>
          IN  IF refused
              THEN /\ last' = [op |-> "create_compliance_profile",
                               ret |-> "error"]
                   /\ UNCHANGED <<next_id, compliance, identities>>
              ELSE IF fault = "save_compliance"
              THEN /\ next_id < MaxComplianceIds
                   /\ next_id' = next_id + 1
                   /\ last' = [op |-> "create_compliance_profile",
                               ret |-> "error"]
                   /\ UNCHANGED <<compliance, identities>>
              ELSE /\ next_id < MaxComplianceIds
                   /\ next_id' = next_id + 1
                   /\ compliance' = [compliance EXCEPT
                                        !.profiles = Append(@, profile)]
                   /\ IF fault = "update_compliance_ref"
                      THEN /\ last' = [op |-> "create_compliance_profile",
                                       ret |-> "error"]
                           /\ UNCHANGED identities
                      ELSE /\ identities' = [identities EXCEPT ![i] =
                                  SetField(@, "eu_compliance", profile.profile_id)]
                           /\ last' = [op |-> "create_compliance_profile",
                                       ret |-> "ok"]
    /\ UNCHANGED <<now, credentials, delegations, audit_log, reputation,
                   provenance_entries, pc, fs, tokens, acked, cache, anchors, ledger>>

AssessmentFaults == {"none", "load_compliance", "save_compliance"}

RecordConformityAssessmentIO ==
    /\ \E agent_id \in ComplianceAgents,
          assessment_type \in {"self", "third_party"},
          result \in {"pass", "fail"}, fault \in AssessmentFaults :
          LET profile == GetComplianceProfile(compliance, agent_id)
              assessment == NewAssessment(next_id + 1, agent_id,
                                          assessment_type, result, TRUE)
              i == FirstIndex(compliance.profiles, "agent_id", agent_id)
              error == AssessmentError(profile, assessment_type, result)
          IN  IF fault = "load_compliance" \/ error # ""
              THEN /\ last' = [op |-> "record_conformity_assessment",
                               agent_id |-> agent_id,
                               assessment_type |-> assessment_type,
                               ret |-> "error", error |-> error]
                   /\ UNCHANGED <<next_id, compliance>>
              ELSE /\ Len(compliance.assessments) < MaxAssessments
                   /\ next_id < MaxComplianceIds
                   /\ next_id' = next_id + 1
                   /\ IF fault = "save_compliance"
                      THEN /\ last' = [op |-> "record_conformity_assessment",
                                       agent_id |-> agent_id,
                                       assessment_type |-> assessment_type,
                                       ret |-> "error", error |-> error]
                           /\ UNCHANGED compliance
                      ELSE /\ compliance' = [compliance EXCEPT
                                  !.assessments = Append(@, assessment),
                                  !.profiles[i] = WithAssessment(@, assessment)]
                           /\ last' = [op |-> "record_conformity_assessment",
                                       agent_id |-> agent_id,
                                       assessment_type |-> assessment_type,
                                       ret |-> "ok", error |-> ""]
    /\ UNCHANGED <<now, identities, credentials, delegations, audit_log,
                   reputation, provenance_entries, pc, fs, tokens, acked, cache, anchors, ledger>>

\* issue_credential catches its own exceptions and its result is not read
DeclarationFaults ==
    {"none", "load_compliance", "save_compliance", "issue_credential"}

GenerateDeclarationOfConformityIO ==
    /\ \E agent_id \in ComplianceAgents, fault \in DeclarationFaults :
          LET profile == GetComplianceProfile(compliance, agent_id)
              error == DeclarationError(profile, compliance)
              assess_id == profile.conformity.assessment_id
              assess_record == IF assess_id # <<>>
                               THEN FindAssessment(compliance, assess_id)
                               ELSE <<>>
              declaration == NewDeclaration(next_id + 1, profile, assess_record)
              failed == [op |-> "generate_declaration_of_conformity",
                         agent_id |-> agent_id, ret |-> "error",
                         error |-> error,
                         pre |-> [compliance |-> compliance,
                                  credentials |-> credentials]]
          IN  IF fault = "load_compliance" \/ error # ""
              THEN /\ last' = failed
                   /\ UNCHANGED <<next_id, compliance, credentials>>
              ELSE /\ Len(compliance.declarations) < MaxDeclarations
                   /\ next_id + 1 < MaxComplianceIds
                   /\ IF fault = "save_compliance"
                      THEN /\ next_id' = next_id + 1
                           /\ last' = failed
                           /\ UNCHANGED <<compliance, credentials>>
                      ELSE /\ next_id' = next_id + 2
                           /\ compliance' = WithDeclaration(compliance, declaration)
                           /\ credentials' =
                                  IF fault = "issue_credential" THEN credentials
                                  ELSE Append(credentials,
                                              ComplianceCredential(
                                                  next_id + 2, profile,
                                                  declaration.declaration_id))
                           /\ last' = [op |-> "generate_declaration_of_conformity",
                                       agent_id |-> agent_id, ret |-> "ok",
                                       pre |-> [compliance |-> compliance,
                                                credentials |-> credentials]]
    /\ UNCHANGED <<now, identities, delegations, audit_log, reputation,
                   provenance_entries, pc, fs, tokens, acked, cache, anchors, ledger>>

NextComplianceIO ==
    \/ CreateComplianceProfileIO
    \/ RecordConformityAssessmentIO
    \/ GenerateDeclarationOfConformityIO

SpecComplianceIO == InitCompliance /\ [][NextComplianceIO]_vars

\* C22: when a mutating operation returns {error: ...}, every collection is
\* exactly as it was before the call, also for the operations that write
\* two collections (create_compliance_profile, generate_declaration_of_conformity).
C22_ErrorLeavesCollections ==
    [][last'.ret = "error" =>
          UNCHANGED <<identities, credentials, delegations, compliance,
                      audit_log, reputation, provenance_entries>>]_vars

\* ---------------------------------------------------------------------
\* The verification calls on stores that may be busy and on records whose
\* dates do not parse.  fault names what goes wrong during the call:
\*   "busy_store"        the collection's FileLock times out (filelock.Timeout)
\*   "unparseable_date"  datetime.fromisoformat raises ValueError on the
\*                       expiry of the record looked at
\* An exception that no except clause of the method catches leaves the
\* method: the result is then [raised |-> its name].

VerifyFaults == {"none", "busy_store", "unparseable_date"}

\* verify_identity has no try around get_identity and fromisoformat
VerifyIdentityIO(ids, agent_id, fault) ==
    IF fault = "busy_store" THEN [raised |-> "Timeout"]
    ELSE IF GetIdentity(ids, agent_id) = <<>>
    THEN VerifyIdentity(ids, agent_id)
    ELSE IF fault = "unparseable_date" THEN [raised |-> "ValueError"]
    ELSE VerifyIdentity(ids, agent_id)

\* verify_credential: the outer except returns {"error": msg}
VerifyCredentialIO(creds, credential_id, fault) ==
    IF fault = "busy_store" THEN [error |-> "verify_credential"]
    ELSE IF FindCredential(creds, credential_id) = <<>>
    THEN VerifyCredential(creds, credential_id)
    ELSE IF fault = "unparseable_date" THEN [error |-> "verify_credential"]
    ELSE VerifyCredential(creds, credential_id)

\* verify_credential_external: the type test comes before the store and the
\* date are read; the outer except returns {"error": msg}
VerifyCredentialExternalIO(creds, credential, fault) ==
    IF ~HasType(Get(credential, "type", <<>>), "VerifiableCredential")
    THEN VerifyCredentialExternal(creds, credential)
    ELSE IF fault = "none" THEN VerifyCredentialExternal(creds, credential)
    ELSE [error |-> "verify_credential_external"]

\* verify_delegation: every exception becomes {"valid": False, "reason": ...}
VerifyDelegationIO(ds, t, token, fault) ==
    IF fault = "busy_store"
       /\ JwtDecode(token, DidKeyToPublicKey(ServerDid), t) = "ok"
    THEN [valid |-> FALSE, reason |-> "verify_delegation"]
    ELSE VerifyDelegation(ds, t, token)

VerifyIdentityCall ==
    /\ \E n \in 1..MaxIds, fault \in VerifyFaults :
          last' = [op |-> "verify_identity", fault |-> fault,
                   ret |-> VerifyIdentityIO(identities, AgentId(n), fault)]
    /\ UNCHANGED <<now, next_id, identities, credentials, delegations,
                   compliance, audit_log, reputation, provenance_entries, pc,
                   fs, tokens, acked, cache, anchors, ledger>>

VerifyCredentialCall ==
    /\ \E n \in 1..MaxIds, fault \in VerifyFaults :
          last' = [op |-> "verify_credential", fault |-> fault,
                   ret |-> VerifyCredentialIO(credentials, CredId(n), fault)]
    /\ UNCHANGED <<now, next_id, identities, credentials, delegations,
                   compliance, audit_log, reputation, provenance_entries, pc,
                   fs, tokens, acked, cache, anchors, ledger>>

VerifyCredentialExternalCallIO ==
    /\ \E i \in 1..Len(credentials), tamper \in {"none", "role", "type"},
          fault \in VerifyFaults :
          last' = [op |-> "verify_credential_external", fault |-> fault,
                   ret |-> VerifyCredentialExternalIO(
                               credentials, Tampered(credentials[i], tamper),
                               fault)]
    /\ UNCHANGED <<now, next_id, identities, credentials, delegations,
                   compliance, audit_log, reputation, provenance_entries, pc,
                   fs, tokens, acked, cache, anchors, ledger>>

VerifyDelegationCall ==
    /\ \E token \in tokens, fault \in {"none", "busy_store"} :
          last' = [op |-> "verify_delegation", fault |-> fault,
                   ret |-> VerifyDelegationIO(delegations, now, token, fault)]
    /\ UNCHANGED <<now, next_id, identities, credentials, delegations,
                   compliance, audit_log, reputation, provenance_entries, pc,
                   fs, tokens, acked, cache, anchors, ledger>>

NextVerify ==
    \/ CreateIdentity
    \/ IssueCredential
    \/ CreateDelegationLoad(DelegationWorker)
    \/ CreateDelegationSave(DelegationWorker)
    \/ VerifyIdentityCall
    \/ VerifyCredentialCall
    \/ VerifyCredentialExternalCallIO
    \/ VerifyDelegationCall
    \/ Tick

SpecVerify == Init /\ [][NextVerify]_vars

VerifyOps ==
    {"verify_identity", "verify_credential", "verify_credential_external",
     "verify_delegation"}

\* C23: the verification methods never raise and always return a result
\* with a boolean valid field, for every input and every store state, a
\* busy store included; failures are reported as valid = false.
C23_VerifyAlwaysAnswersValid ==
    last.op \in VerifyOps =>
        /\ "raised" \notin DOMAIN last.ret
        /\ "valid" \in DOMAIN last.ret
        /\ last.ret.valid \in BOOLEAN
        /\ last.fault # "none" => last.ret.valid = FALSE

\* ---------------------------------------------------------------------
\* verify_presentation on a presentation as a holder or a third party may
\* have altered it after create_verifiable_presentation signed it.

VpTampers ==
    {"none", "holder", "type", "credential_role", "credential_subject",
     "credential_status", "credential_proof", "proof"}

\* the nested credential k of vp replaced by c
WithNested(vp, k, c) ==
    [vp EXCEPT !.verifiableCredential = [@ EXCEPT ![k] = c]]

TamperedVp(vp, tamper) ==
    LET creds == vp.verifiableCredential
    IN  IF tamper = "holder" THEN [vp EXCEPT !.holder = AgentId(3)]
        ELSE IF tamper = "type" THEN [vp EXCEPT !.type = <<"Badge">>]
        ELSE IF tamper = "proof" THEN Without(vp, {"proof"})
        ELSE IF tamper = "none" \/ Len(creds) = 0 THEN vp
        ELSE IF tamper = "credential_role"
        THEN WithNested(vp, 1, [creds[1] EXCEPT !.credentialSubject.role = "admin"])
        ELSE IF tamper = "credential_subject"
        THEN WithNested(vp, 1, [creds[1] EXCEPT !.credentialSubject.id = AgentId(3)])
        ELSE IF tamper = "credential_status"
        THEN WithNested(vp, 1, [creds[1] EXCEPT !.credentialStatus.revoked = TRUE])
        ELSE WithNested(vp, 1, Without(creds[1], {"proof"}))

\* verify_presentation of the presentation just created, altered or not
VerifyPresentationCall ==
    /\ last.op = "create_verifiable_presentation"
    /\ last.ret = "ok"
    /\ \E tamper \in VpTampers :
          last' = [op |-> "verify_presentation",
                   signed |-> last.vp,
                   presentation |-> TamperedVp(last.vp, tamper),
                   ret |-> VerifyPresentation(TamperedVp(last.vp, tamper))]
    /\ UNCHANGED <<now, next_id, identities, credentials, delegations,
                   compliance, audit_log, reputation, provenance_entries, pc,
                   fs, tokens, acked, cache, anchors, ledger>>

NextPresentationVerify ==
    \/ CreateIdentity
    \/ IssueCredential
    \/ CreateVerifiablePresentation
    \/ VerifyPresentationCall
    \/ Tick

SpecPresentationVerify == Init /\ [][NextPresentationVerify]_vars

\* object carries the server's signature over payload
ServerSigned(object, payload) ==
    /\ "proof" \in DOMAIN object
    /\ object.proof.proofValue = SignJsonPayload(ServerKey, payload)

\* C24: verify_presentation(vp).valid is true only if vp's type includes
\* VerifiablePresentation, the VP signature verifies over the presentation
\* without its proof, every nested credential's signature verifies and every
\* nested credential's credentialSubject.id equals vp.holder; a holder or a
\* nested credential changed after signing makes the result invalid.
C24_PresentationValidOnlyIfIntact ==
    last.op = "verify_presentation" =>
        LET vp == last.presentation
            creds == vp.verifiableCredential
        IN  /\ last.ret.valid =>
                  /\ HasType(vp.type, "VerifiablePresentation")
                  /\ ServerSigned(vp, Without(vp, {"proof"}))
                  /\ \A k \in 1..Len(creds) :
                        /\ ServerSigned(creds[k], CredentialPayload(creds[k]))
                        /\ creds[k].credentialSubject.id = vp.holder
            /\ (\/ vp.holder # last.signed.holder
                \/ creds # last.signed.verifiableCredential)
               => last.ret.valid = FALSE

\* the holder of a signed presentation of one credential was changed; the
\* presentation as signed verifies valid
C24_Witness ==
    /\ last.op = "verify_presentation"
    /\ last.presentation.holder # last.signed.holder
    /\ Len(last.signed.verifiableCredential) = 1
    /\ VerifyPresentation(last.signed).valid
    /\ last.ret.checks.vp_signature_valid = FALSE
    /\ last.ret.checks.holder_matches_subjects = FALSE

\* r carries the server's signature over its content without the fields in
\* mutable
SignatureCurrent(r, mutable) ==
    r.signature = SignJsonPayload(ServerKey, Without(r, mutable))

\* C25: for every stored signed record (identity, credential, compliance
\* profile, assessment, declaration), in every reachable state, the stored
\* signature is the server's signature over the record's current content
\* minus its mutable fields; recording an assessment or generating a
\* declaration does not invalidate the profile's signature.
C25_StoredSignaturesCurrent ==
    /\ \A i \in Indices(identities) :
          SignatureCurrent(identities[i], MUTABLE_FIELDS)
    /\ \A i \in Indices(credentials) :
          credentials[i].proof.proofValue
              = SignJsonPayload(ServerKey, CredentialPayload(credentials[i]))
    /\ \A i \in Indices(compliance.profiles) :
          SignatureCurrent(compliance.profiles[i], {"signature"})
    /\ \A i \in Indices(compliance.assessments) :
          SignatureCurrent(compliance.assessments[i], {"signature"})
    /\ \A i \in Indices(compliance.declarations) :
          SignatureCurrent(compliance.declarations[i], {"signature"})

\* ---------------------------------------------------------------------
\* services/cache.py and auth/crypto.py: the service cache and the server
\* signing key.  In this specification now counts seconds (time.time()),
\* next_id also numbers the key pairs generated and the objects constructed,
\* fs holds the key file and acked the instances handed to callers.
\* ---------------------------------------------------------------------
DEFAULT_TTL == 600

SIGNING_KEY_FILE == <<".signing_key", "json">>

ServiceClasses == {"IdentityService", "CredentialService"}

MaxServiceTicks == 2
MaxServiceIds == 4

\* the step of the clock between two calls: half a TTL
HalfTtl == DEFAULT_TTL \div 2

\* cache_key = f"{service_class.__name__}:{instance_id}", instance_id default
CacheKey(service_class) == <<service_class, "default">>

\* generate_ed25519_keypair: the n-th key pair of the process
NewKey(n) == <<"key", n>>

\* key_data as written to the key file
KeyData(private_key) ==
    [did_key |-> PublicKeyToDidKey(private_key),
     private_key_b64 |-> private_key,
     algorithm |-> "Ed25519"]

\* open(key_path, "w") before json.dump has written anything
Truncated == <<>>

\* json.load and data["private_key_b64"] succeed on this file content
KeyFileReadable(text) == "private_key_b64" \in DOMAIN text

\* service_class(**kwargs) once load_or_create_signing_key has returned
NewInstance(n, service_class, private_key) ==
    [object |-> n, class |-> service_class,
     private_key |-> private_key,
     server_did |-> PublicKeyToDidKey(private_key)]

Served(instance, created_at) == <<"get_service", instance, created_at>>

\* the cache holds an entry for the key that is younger than ttl
Cached(service_class, t) ==
    /\ CacheKey(service_class) \in DOMAIN cache
    /\ t - cache[CacheKey(service_class)][2] < DEFAULT_TTL

\* get_service up to the constructor call: a hit returns the cached
\* instance, a miss goes on to construct one
GetServiceStart(w) ==
    /\ pc[w] = Idle
    /\ \E service_class \in ServiceClasses :
          IF Cached(service_class, now)
          THEN LET entry == cache[CacheKey(service_class)]
               IN  /\ last' = [op |-> "get_service", class |-> service_class,
                               instance |-> entry[1], created_at |-> entry[2],
                               at |-> now, hit |-> TRUE]
                   /\ acked' = acked \cup {Served(entry[1], entry[2])}
                   /\ UNCHANGED pc
          ELSE /\ next_id < MaxServiceIds
               /\ pc' = [pc EXCEPT ![w] =
                            [op |-> "get_service", step |-> "exists",
                             class |-> service_class, now |-> now]]
               /\ last' = NoCall
               /\ UNCHANGED acked
    /\ UNCHANGED <<now, next_id, identities, credentials, delegations,
                   compliance, audit_log, reputation, provenance_entries,
                   fs, tokens, cache, anchors, ledger>>

\* load_or_create_signing_key: if key_path.exists()
SigningKeyExists(w) ==
    /\ pc[w] # Idle
    /\ pc[w].op = "get_service"
    /\ pc[w].step = "exists"
    /\ pc' = [pc EXCEPT ![w].step =
                 IF Exists(fs, SIGNING_KEY_FILE) THEN "load" ELSE "generate"]
    /\ last' = NoCall
    /\ UNCHANGED <<now, next_id, identities, credentials, delegations,
                   compliance, audit_log, reputation, provenance_entries,
                   fs, tokens, acked, cache, anchors, ledger>>

\* load_or_create_signing_key: read the file; a file that cannot be parsed
\* is logged as corrupted and a new key is generated
SigningKeyLoad(w) ==
    /\ pc[w] # Idle
    /\ pc[w].op = "get_service"
    /\ pc[w].step = "load"
    /\ pc' = [pc EXCEPT ![w] =
                 IF KeyFileReadable(fs[SIGNING_KEY_FILE])
                 THEN [op |-> "get_service", step |-> "store",
                       class |-> pc[w].class, now |-> pc[w].now,
                       private_key |-> fs[SIGNING_KEY_FILE].private_key_b64]
                 ELSE [op |-> "get_service", step |-> "generate",
                       class |-> pc[w].class, now |-> pc[w].now]]
    /\ last' = NoCall
    /\ UNCHANGED <<now, next_id, identities, credentials, delegations,
                   compliance, audit_log, reputation, provenance_entries,
                   fs, tokens, acked, cache, anchors, ledger>>

\* load_or_create_signing_key: generate a key pair and open the key file for
\* writing, which truncates it
SigningKeyGenerate(w) ==
    /\ pc[w] # Idle
    /\ pc[w].op = "get_service"
    /\ pc[w].step = "generate"
    /\ next_id' = next_id + 1
    /\ fs' = WriteFile(fs, SIGNING_KEY_FILE, Truncated)
    /\ pc' = [pc EXCEPT ![w] =
                 [op |-> "get_service", step |-> "dump",
                  class |-> pc[w].class, now |-> pc[w].now,
                  private_key |-> NewKey(next_id + 1)]]
    /\ last' = NoCall
    /\ UNCHANGED <<now, identities, credentials, delegations, compliance,
                   audit_log, reputation, provenance_entries, tokens, acked,
                   cache, anchors, ledger>>

\* load_or_create_signing_key: json.dump(key_data, f) and return
SigningKeyDump(w) ==
    /\ pc[w] # Idle
    /\ pc[w].op = "get_service"
    /\ pc[w].step = "dump"
    /\ fs' = WriteFile(fs, SIGNING_KEY_FILE, KeyData(pc[w].private_key))
    /\ pc' = [pc EXCEPT ![w].step = "store"]
    /\ last' = NoCall
    /\ UNCHANGED <<now, next_id, identities, credentials, delegations,
                   compliance, audit_log, reputation, provenance_entries,
                   tokens, acked, cache, anchors, ledger>>

\* get_service after the constructor: _cache[cache_key] = (instance, now)
GetServiceStore(w) ==
    /\ pc[w] # Idle
    /\ pc[w].op = "get_service"
    /\ pc[w].step = "store"
    /\ LET instance ==
               NewInstance(next_id + 1, pc[w].class, pc[w].private_key)
       IN  /\ cache' = [k \in DOMAIN cache \cup {CacheKey(pc[w].class)} |->
                           IF k = CacheKey(pc[w].class)
                           THEN <<instance, pc[w].now>>
                           ELSE cache[k]]
           /\ last' = [op |-> "get_service", class |-> pc[w].class,
                       instance |-> instance, created_at |-> pc[w].now,
                       at |-> pc[w].now, hit |-> FALSE]
           /\ acked' = acked \cup {Served(instance, pc[w].now)}
    /\ next_id' = next_id + 1
    /\ pc' = [pc EXCEPT ![w] = Idle]
    /\ UNCHANGED <<now, identities, credentials, delegations, compliance,
                   audit_log, reputation, provenance_entries, fs, tokens,
                   anchors, ledger>>

\* half a TTL passes
ServiceTick ==
    /\ now < MaxServiceTicks * HalfTtl
    /\ now' = now + HalfTtl
    /\ last' = NoCall
    /\ UNCHANGED <<next_id, identities, credentials, delegations, compliance,
                   audit_log, reputation, provenance_entries, pc, fs,
                   tokens, acked, cache, anchors, ledger>>

GetServiceStarts == \E w \in Workers : GetServiceStart(w)
SigningKeyExistsStep == \E w \in Workers : SigningKeyExists(w)
SigningKeyLoads == \E w \in Workers : SigningKeyLoad(w)
SigningKeyGenerates == \E w \in Workers : SigningKeyGenerate(w)
SigningKeyDumps == \E w \in Workers : SigningKeyDump(w)
GetServiceStores == \E w \in Workers : GetServiceStore(w)

NextServices ==
    \/ GetServiceStarts
    \/ SigningKeyExistsStep
    \/ SigningKeyLoads
    \/ SigningKeyGenerates
    \/ SigningKeyDumps
    \/ GetServiceStores
    \/ ServiceTick

SpecServices == Init /\ [][NextServices]_vars

\* the instances handed to callers so far, with their cache stamps
ServedInstances ==
    {[instance |-> x[2], created_at |-> x[3]] :
        x \in {y \in acked : y[1] = "get_service"}}

\* C26: all service instances in a process use one and the same server
\* signing key, and it is the key held in the key file, also when the first
\* instances are constructed concurrently and when instances are rebuilt
\* after the cache TTL.
C26_OneSigningKey ==
    /\ \A x, y \in ServedInstances :
          x.instance.private_key = y.instance.private_key
    /\ \A x \in ServedInstances :
          (/\ Exists(fs, SIGNING_KEY_FILE)
           /\ KeyFileReadable(fs[SIGNING_KEY_FILE]))
          => fs[SIGNING_KEY_FILE].private_key_b64 = x.instance.private_key

\* C27: get_service is a thread-safe get-or-create: instances of one class
\* that callers receive are the same object unless a full TTL lies between
\* their constructions, and an instance is served from the cache only while
\* it is younger than the TTL.
C27_GetOrCreateOncePerTtl ==
    /\ \A x, y \in ServedInstances :
          (/\ x.instance.class = y.instance.class
           /\ x.instance # y.instance
           /\ x.created_at <= y.created_at)
          => y.created_at - x.created_at >= DEFAULT_TTL
    /\ (last.op = "get_service" /\ last.hit)
          => last.at - last.created_at < DEFAULT_TTL

\* ---------------------------------------------------------------------
\* auth/ssrf.py: host validation before outbound requests.  A hostname is
\* the sequence of its dot-separated labels (the empty sequence is the
\* empty string), an IP literal is a single label.
\* ---------------------------------------------------------------------
MaxResolved == 2

NoError == "None"

BLOCKED_DOMAINS ==
    {<<"localhost">>, <<"localhost", "localdomain">>,
     <<"metadata", "google", "internal">>, <<"metadata", "google", "com">>,
     <<"169.254.169.254">>}

BLOCKED_SUFFIXES == {"local", "internal", "localhost"}

\* ipaddress.ip_address(s) parses these texts; the flags are the properties
\* is_private, is_loopback, is_link_local, is_reserved that are true of it
IpFlags ==
    [x \in {"8.8.8.8", "93.184.216.34", "127.0.0.1", "10.0.0.1",
            "169.254.169.254", "240.0.0.1", "::1"} |->
        CASE x = "127.0.0.1" -> {"is_private", "is_loopback"}
          [] x = "::1" -> {"is_private", "is_loopback"}
          [] x = "10.0.0.1" -> {"is_private"}
          [] x = "169.254.169.254" -> {"is_private", "is_link_local"}
          [] x = "240.0.0.1" -> {"is_private", "is_reserved"}
          [] OTHER -> {}]

\* str.lower() of one label
Lower(label) ==
    CASE label = "LOCALHOST" -> "localhost"
      [] label = "Local" -> "local"
      [] label = "Example" -> "example"
      [] OTHER -> label

\* str.strip("[]") of one label
StripBrackets(label) ==
    CASE label = "[::1]" -> "::1"
      [] label = "[8.8.8.8]" -> "8.8.8.8"
      [] OTHER -> label

\* clean = hostname.lower().strip("[]")
Clean(hostname) ==
    [i \in 1..Len(hostname) |->
        LET l == Lower(hostname[i])
        IN  IF Len(hostname) = 1 THEN StripBrackets(l) ELSE l]

\* ipaddress.ip_address(clean) does not raise ValueError
IsIpLiteral(clean) == Len(clean) = 1 /\ clean[1] \in DOMAIN IpFlags

\* ip.is_private or ip.is_loopback or ip.is_link_local or ip.is_reserved
IsPrivateIp(ip_str) == ip_str \in DOMAIN IpFlags /\ IpFlags[ip_str] # {}

\* clean.endswith(suffix) for one of the blocked suffixes
HasBlockedSuffix(clean) ==
    Len(clean) >= 2 /\ clean[Len(clean)] \in BLOCKED_SUFFIXES

\* validate_url_host with the answer of socket.getaddrinfo for the name
\* (the empty sequence stands for socket.gaierror)
ValidateUrlHost_FirstAddressOnly(hostname, resolved) ==
    LET clean == Clean(hostname)
    IN  IF hostname = <<>> THEN "Empty hostname"
        ELSE IF clean \in BLOCKED_DOMAINS THEN "Blocked: private hostname"
        ELSE IF HasBlockedSuffix(clean)
             THEN "Blocked: private domain suffix"
        ELSE IF IsIpLiteral(clean) /\ IsPrivateIp(clean[1])
             THEN "Blocked: private/reserved IP address"
        ELSE IF resolved # <<>> /\ IsPrivateIp(resolved[1])
             THEN "Blocked: resolves to private IP"
        ELSE NoError

ValidateUrlHost(hostname, resolved) ==
    LET clean == Clean(hostname)
    IN  IF hostname = <<>> THEN "Empty hostname"
        ELSE IF clean \in BLOCKED_DOMAINS THEN "Blocked: private hostname"
        ELSE IF HasBlockedSuffix(clean)
             THEN "Blocked: private domain suffix"
        ELSE IF IsIpLiteral(clean) /\ IsPrivateIp(clean[1])
             THEN "Blocked: private/reserved IP address"
        ELSE IF \E i \in 1..Len(resolved) : IsPrivateIp(resolved[i])
             THEN "Blocked: resolves to private IP"
        ELSE NoError

Hostnames ==
    {<<>>, <<"localhost">>, <<"LOCALHOST">>,
     <<"metadata", "google", "internal">>, <<"myserver", "local">>,
     <<"api", "internal">>, <<"127.0.0.1">>, <<"[::1]">>, <<"10.0.0.1">>,
     <<"169.254.169.254">>, <<"240.0.0.1">>, <<"8.8.8.8">>,
     <<"example", "com">>, <<"evil", "Example", "com">>}

\* the addresses a DNS server may answer with
Addresses == {"93.184.216.34", "127.0.0.1", "10.0.0.1", "169.254.169.254"}

SeqsUpTo(S, n) == UNION {[1..k -> S] : k \in 0..n}

\* what socket.getaddrinfo returns for the cleaned host: the literal itself
\* for an IP literal, otherwise whatever the DNS answers, or gaierror
GetAddrInfo(clean) ==
    IF IsIpLiteral(clean) THEN {<<clean[1]>>}
    ELSE SeqsUpTo(Addresses, MaxResolved)

ValidateUrlHostCall ==
    /\ last = NoCall
    /\ \E hostname \in Hostnames :
          \E resolved \in GetAddrInfo(Clean(hostname)) :
             last' = [op |-> "validate_url_host", hostname |-> hostname,
                      resolved |-> resolved,
                      ret |-> ValidateUrlHost(hostname, resolved)]
    /\ UNCHANGED <<now, next_id, identities, credentials, delegations,
                   compliance, audit_log, reputation, provenance_entries,
                   pc, fs, tokens, acked, cache, anchors, ledger>>

\* validate_and_pin_url: the same tests on the URL's hostname, returning the
\* validated addresses for the caller to connect to
ValidateAndPinUrl(hostname, resolved) ==
    LET clean == Clean(hostname)
    IN  IF hostname = <<>>
        THEN [error |-> "No hostname in URL", pinned |-> <<>>]
        ELSE IF clean \in BLOCKED_DOMAINS
        THEN [error |-> "Blocked: private hostname", pinned |-> <<>>]
        ELSE IF HasBlockedSuffix(clean)
        THEN [error |-> "Blocked: private domain suffix", pinned |-> <<>>]
        ELSE IF IsIpLiteral(clean)
        THEN IF IsPrivateIp(clean[1])
             THEN [error |-> "Blocked: private/reserved IP address",
                   pinned |-> <<>>]
             ELSE [error |-> NoError, pinned |-> <<clean[1]>>]
        ELSE IF \E i \in 1..Len(resolved) : IsPrivateIp(resolved[i])
        THEN [error |-> "Blocked: resolves to private IP", pinned |-> <<>>]
        ELSE [error |-> NoError, pinned |-> resolved]

ValidateAndPinUrlCall ==
    /\ last = NoCall
    /\ \E hostname \in Hostnames :
          \E resolved \in GetAddrInfo(Clean(hostname)) :
             last' = [op |-> "validate_and_pin_url", hostname |-> hostname,
                      resolved |-> resolved,
                      ret |-> ValidateAndPinUrl(hostname, resolved)]
    /\ UNCHANGED <<now, next_id, identities, credentials, delegations,
                   compliance, audit_log, reputation, provenance_entries,
                   pc, fs, tokens, acked, cache, anchors, ledger>>

\* re.match(r"^[a-z0-9._-]+(?::[a-z0-9._-]+)*$", raw) on a did:web whose
\* only part is the domain
DidWebFormatValid(domain) ==
    /\ domain # <<>>
    /\ \A i \in 1..Len(domain) :
          domain[i] \notin {"LOCALHOST", "Local", "Example", "[::1]", "::1"}

\* the answers of the web server that the client reaches
NoRedirect == <<>>

RedirectTargets == {<<"127.0.0.1">>, <<"example", "com">>}

\* the address httpx dials for a host: the first one the resolver returns
\* at connection time
Dialled(answer) == IF answer = <<>> THEN <<>> ELSE <<answer[1]>>

\* DIDService._resolve_did_web for did:web:<domain>
ResolveDidWebCall ==
    /\ last = NoCall
    /\ \E domain \in Hostnames :
          IF ~DidWebFormatValid(domain)
          THEN last' = [op |-> "_resolve_did_web", hostname |-> domain,
                        validated |-> <<>>, connected |-> <<>>,
                        redirects |-> 0,
                        ret |-> [error |-> "Invalid did:web format"]]
          ELSE \E resolved \in GetAddrInfo(Clean(domain)) :
                  LET ssrf_err == ValidateUrlHost(domain, resolved)
                  IN  IF ssrf_err # NoError
                      THEN last' = [op |-> "_resolve_did_web",
                                    hostname |-> domain,
                                    validated |-> <<>>, connected |-> <<>>,
                                    redirects |-> 0,
                                    ret |-> [error |-> ssrf_err]]
                      ELSE \E answer \in GetAddrInfo(Clean(domain)),
                              location \in {NoRedirect} \cup RedirectTargets :
                              last' = [op |-> "_resolve_did_web",
                                       hostname |-> domain,
                                       validated |-> resolved,
                                       connected |-> Dialled(answer),
                                       redirects |-> 0,
                                       ret |->
                                         IF answer = <<>>
                                         THEN [error |-> "Could not resolve"]
                                         ELSE IF location # NoRedirect
                                         THEN [error |-> "HTTP 302"]
                                         ELSE [document |-> "did.json"]]
    /\ UNCHANGED <<now, next_id, identities, credentials, delegations,
                   compliance, audit_log, reputation, provenance_entries,
                   pc, fs, tokens, acked, cache, anchors, ledger>>

\* the hosts discover_agent refuses by name; urlparse(url).hostname is the
\* lower-cased host without brackets
DiscoverBlocked(hostname) ==
    \/ Clean(hostname) \in {<<"localhost">>, <<"127.0.0.1">>, <<"0.0.0.0">>,
                            <<"[::1]">>, <<"169.254.169.254">>}
    \/ (Len(hostname) >= 2 /\ Clean(hostname)[Len(hostname)] = "local")

\* AgentCardService.discover_agent(base_url) for base_url = scheme://host
DiscoverAgentCall ==
    /\ last = NoCall
    /\ \E scheme \in {"http", "https"}, hostname \in Hostnames :
          IF scheme # "https"
          THEN last' = [op |-> "discover_agent", hostname |-> hostname,
                        validated |-> <<>>, connected |-> <<>>,
                        redirects |-> 0,
                        ret |-> [error |-> "Only HTTPS URLs are supported"]]
          ELSE IF hostname # <<>> /\ DiscoverBlocked(hostname)
          THEN last' = [op |-> "discover_agent", hostname |-> hostname,
                        validated |-> <<>>, connected |-> <<>>,
                        redirects |-> 0,
                        ret |-> [error |-> "Blocked: private domains"]]
          ELSE \E answer \in GetAddrInfo(Clean(hostname)),
                  location \in {NoRedirect} \cup RedirectTargets :
                  IF answer = <<>> \/ hostname = <<>>
                  THEN last' = [op |-> "discover_agent",
                                hostname |-> hostname,
                                validated |-> <<>>, connected |-> <<>>,
                                redirects |-> 0,
                                ret |-> [error |-> "Could not fetch"]]
                  ELSE IF location = NoRedirect
                  THEN last' = [op |-> "discover_agent",
                                hostname |-> hostname,
                                validated |-> <<>>,
                                connected |-> Dialled(answer),
                                redirects |-> 0,
                                ret |-> [agent_card |-> "agent.json"]]
                  ELSE \E second \in GetAddrInfo(location) :
                          last' = [op |-> "discover_agent",
                                   hostname |-> hostname,
                                   validated |-> <<>>,
                                   connected |->
                                       Dialled(answer) \o Dialled(second),
                                   redirects |-> 1,
                                   ret |->
                                     IF second = <<>>
                                     THEN [error |-> "Could not fetch"]
                                     ELSE [agent_card |-> "agent.json"]]
    /\ UNCHANGED <<now, next_id, identities, credentials, delegations,
                   compliance, audit_log, reputation, provenance_entries,
                   pc, fs, tokens, acked, cache, anchors, ledger>>

\* the caller takes the result; the next request can start
CallReturned ==
    /\ last # NoCall
    /\ last' = NoCall
    /\ UNCHANGED <<now, next_id, identities, credentials, delegations,
                   compliance, audit_log, reputation, provenance_entries,
                   pc, fs, tokens, acked, cache, anchors, ledger>>

NextSsrf ==
    \/ ValidateUrlHostCall
    \/ ValidateAndPinUrlCall
    \/ ResolveDidWebCall
    \/ DiscoverAgentCall
    \/ CallReturned

SpecSsrf == Init /\ [][NextSsrf]_vars

\* the cases in which the host must be refused
EmptyHost(h) == h = <<>>
OnDenyList(h) == Clean(h) \in BLOCKED_DOMAINS
EndsWithBlockedSuffix(h) ==
    Len(h) >= 2 /\ Clean(h)[Len(h)] \in BLOCKED_SUFFIXES
PrivateLiteral(h) ==
    Len(h) = 1 /\ Clean(h)[1] \in DOMAIN IpFlags /\ IpFlags[Clean(h)[1]] # {}
ResolvesPrivate(resolved) ==
    \E a \in Range(resolved) : a \in DOMAIN IpFlags /\ IpFlags[a] # {}

\* C28: validate_url_host(h) returns an error for every h that is empty, is
\* on the deny-list, ends with a blocked suffix, is a private, loopback,
\* link-local or reserved IP literal, or has at least one resolved address in
\* those ranges; it returns no error only when every resolved address is
\* public.
C28_ValidateUrlHostRefusesPrivate ==
    last.op = "validate_url_host" =>
        /\ (\/ EmptyHost(last.hostname)
            \/ OnDenyList(last.hostname)
            \/ EndsWithBlockedSuffix(last.hostname)
            \/ PrivateLiteral(last.hostname)
            \/ ResolvesPrivate(last.resolved)) => last.ret # NoError
        /\ (last.ret = NoError) =>
               \A a \in Range(last.resolved) : IpFlags[a] = {}

\* a name that resolves to one public and one private address is refused
C28_Witness ==
    /\ last.op = "validate_url_host"
    /\ ~IsIpLiteral(Clean(last.hostname))
    /\ Len(last.resolved) = 2
    /\ ~IsPrivateIp(last.resolved[1])
    /\ IsPrivateIp(last.resolved[2])
    /\ last.ret = "Blocked: resolves to private IP"

\* C29: every outbound fetch made for did:web resolution and agent-card
\* discovery connects only to addresses that passed the SSRF validation of
\* that call (the validated addresses are pinned), never to a private
\* address, and follows no redirect.
C29_FetchesOnlyValidatedAddresses ==
    last.op \in {"_resolve_did_web", "discover_agent"} =>
        /\ \A a \in Range(last.connected) :
              a \in Range(last.validated) /\ ~IsPrivateIp(a)
        /\ last.redirects = 0

\* ---------------------------------------------------------------------
\* blockchain/merkle.py: the Merkle root over a batch of audit entries.
\* SHA-256 is a symbolic hash: equal digests exactly for equal inputs.
\* ---------------------------------------------------------------------
MaxLeaves == 3

LEAF_PREFIX == "00"
NODE_PREFIX == "01"

Sha256(bytes) == <<"sha256", bytes>>

\* bytes.hex()
Hex(digest) == <<"hex", digest>>

\* hash_leaf: the canonical JSON of the entry under the leaf prefix
HashLeaf(data) == Sha256(<<LEAF_PREFIX, JsonDump(data)>>)

\* hash_pair: both children, in order, under the node prefix
HashPair_Unordered(left, right) == Sha256(<<NODE_PREFIX, {left, right}>>)

HashPair(left, right) == Sha256(<<NODE_PREFIX, left, right>>)

\* one round in which an odd last node is paired with itself
NextLevel_DuplicatesLast(current) ==
    [i \in 1..((Len(current) + 1) \div 2) |->
        IF 2 * i <= Len(current)
        THEN HashPair(current[2 * i - 1], current[2 * i])
        ELSE HashPair(current[2 * i - 1], current[2 * i - 1])]

\* one round of the while loop: neighbours are paired, an odd last node is
\* carried up unchanged
NextLevel(current) ==
    [i \in 1..((Len(current) + 1) \div 2) |->
        IF 2 * i <= Len(current)
        THEN HashPair(current[2 * i - 1], current[2 * i])
        ELSE current[2 * i - 1]]

RECURSIVE BuildMerkleTree(_)
\* build_merkle_tree on a non-empty list of leaf hashes: the root
BuildMerkleTree(leaves) ==
    IF Len(leaves) = 1 THEN leaves[1]
    ELSE BuildMerkleTree(NextLevel(leaves))

ComputeMerkleRoot(entries) ==
    LET leaf_hashes == [i \in 1..Len(entries) |-> HashLeaf(entries[i])]
    IN  IF leaf_hashes = <<>>
        THEN [raised |-> "ValueError", root |-> <<>>, leaf_count |-> 0]
        ELSE [raised |-> "", root |-> Hex(BuildMerkleTree(leaf_hashes)),
              leaf_count |-> Len(leaf_hashes)]

AuditEntries == {[i |-> 1], [i |-> 2], [i |-> 3]}

\* compute_merkle_root is called on two batches
ComputeMerkleRootCall ==
    /\ last = NoCall
    /\ \E entries \in SeqsUpTo(AuditEntries, MaxLeaves),
          other \in SeqsUpTo(AuditEntries, MaxLeaves) :
          last' = [op |-> "compute_merkle_root",
                   entries |-> entries, ret |-> ComputeMerkleRoot(entries),
                   other |-> other, other_ret |-> ComputeMerkleRoot(other)]
    /\ UNCHANGED <<now, next_id, identities, credentials, delegations,
                   compliance, audit_log, reputation, provenance_entries,
                   pc, fs, tokens, acked, cache, anchors, ledger>>

NextMerkle ==
    \/ ComputeMerkleRootCall
    \/ CallReturned

SpecMerkle == Init /\ [][NextMerkle]_vars

\* b is a with exactly one entry replaced by a different one
OneEntryChanged(a, b) ==
    /\ Len(a) = Len(b)
    /\ \E i \in 1..Len(a) :
          a[i] # b[i] /\ \A j \in 1..Len(a) : j # i => a[j] = b[j]

\* b is a with two distinct entries exchanged
TwoEntriesSwapped(a, b) ==
    /\ Len(a) = Len(b)
    /\ \E i, j \in 1..Len(a) :
          /\ i # j
          /\ a[i] # a[j]
          /\ b = [a EXCEPT ![i] = a[j], ![j] = a[i]]

\* C30: compute_merkle_root is deterministic and sensitive: the same entries
\* in the same order give the same root, and changing any single entry, or
\* the order of two distinct entries, gives a different root.
C30_MerkleRootDeterministicAndSensitive ==
    last.op = "compute_merkle_root" =>
        /\ (last.entries = last.other) => last.ret = last.other_ret
        /\ (\/ OneEntryChanged(last.entries, last.other)
            \/ TwoEntriesSwapped(last.entries, last.other))
           => last.ret.root # last.other_ret.root

\* three entries, the first two exchanged: the pair under the first inner
\* node is reversed and the root differs
C30_Witness ==
    /\ last.op = "compute_merkle_root"
    /\ Len(last.entries) = 3
    /\ last.other = [last.entries EXCEPT ![1] = last.entries[2],
                                         ![2] = last.entries[1]]
    /\ last.entries[1] # last.entries[2]
    /\ last.ret.root # last.other_ret.root

\* ---------------------------------------------------------------------
\* The canonical form behind signing, artifact hashing and leaf hashing.
\* A JSON object is the sequence of its (key, value) pairs in insertion
\* order; "e+acute" is the decomposed spelling of the composed "e-acute".
\* ---------------------------------------------------------------------

\* unicodedata.normalize("NFC", s)
Nfc(s) == IF s = "e+acute" THEN "e-acute" ELSE s

\* _normalize_for_signing on an object of strings
NormalizeForSigning(obj) ==
    [i \in 1..Len(obj) |-> <<Nfc(obj[i][1]), Nfc(obj[i][2])>>]

\* dict semantics of a pair list: a later pair with the same key wins
DictGet(obj, k) ==
    LET hits == {i \in 1..Len(obj) : obj[i][1] = k}
    IN  obj[CHOOSE i \in hits : \A j \in hits : j <= i][2]

\* json.dumps(obj, sort_keys=True, separators=(",", ":")): the text depends
\* on the mapping of keys to values only, not on the insertion order
JsonDumpsSorted(obj) ==
    [k \in {obj[i][1] : i \in 1..Len(obj)} |-> DictGet(obj, k)]

\* BlockchainService.hash_artifact
HashArtifact(artifact) ==
    Hex(Sha256(JsonDumpsSorted(NormalizeForSigning(artifact))))

JsonKeys == {"name", "note"}
JsonStrings == {"e-acute", "e+acute", "x"}

JsonObjects ==
    {obj \in SeqsUpTo(JsonKeys \X JsonStrings, Cardinality(JsonKeys)) :
        \A i, j \in 1..Len(obj) : i # j => obj[i][1] # obj[j][1]}

\* value is signed; other is verified against that signature and both are
\* hashed as artifacts and as Merkle leaves
CanonicalFormsCall ==
    /\ last = NoCall
    /\ \E value \in JsonObjects, other \in JsonObjects :
          LET sig == SignJsonPayload(ServerKey,
                         JsonDumpsSorted(NormalizeForSigning(value)))
          IN  last' =
                [op |-> "canonical_forms", value |-> value, other |-> other,
                 verified |->
                     VerifyJsonSignature(ServerKey,
                         JsonDumpsSorted(NormalizeForSigning(other)), sig),
                 artifact_hash |-> HashArtifact(value),
                 other_artifact_hash |-> HashArtifact(other),
                 leaf_hash |-> HashLeaf(JsonDumpsSorted(value)),
                 other_leaf_hash |-> HashLeaf(JsonDumpsSorted(other))]
    /\ UNCHANGED <<now, next_id, identities, credentials, delegations,
                   compliance, audit_log, reputation, provenance_entries,
                   pc, fs, tokens, acked, cache, anchors, ledger>>

NextCanonical ==
    \/ CanonicalFormsCall
    \/ CallReturned

SpecCanonical == Init /\ [][NextCanonical]_vars

\* b holds the pairs of a in another order
OnlyKeyOrderDiffers(a, b) ==
    /\ Len(a) = Len(b)
    /\ Range(a) = Range(b)

\* b is a with some strings in another normalization form
OnlyNormalizationDiffers(a, b) ==
    /\ Len(a) = Len(b)
    /\ \A i \in 1..Len(a) :
          Nfc(a[i][1]) = Nfc(b[i][1]) /\ Nfc(a[i][2]) = Nfc(b[i][2])

\* C31: signing, artifact hashing and Merkle leaf hashing use one canonical
\* form: two values that differ only in key order, or only in Unicode
\* normalization form, give the same verification result, the same artifact
\* hash and the same leaf hash.
C31_OneCanonicalForm ==
    (/\ last.op = "canonical_forms"
     /\ \/ OnlyKeyOrderDiffers(last.value, last.other)
        \/ OnlyNormalizationDiffers(last.value, last.other))
    => /\ last.verified
       /\ last.artifact_hash = last.other_artifact_hash
       /\ last.leaf_hash = last.other_leaf_hash

\* ---------------------------------------------------------------------
\* services/blockchain_service.py: anchoring on the ledger.  ledger is the
\* sequence of transactions the service has sent, each with the outcome the
\* chain gave it; whether the service is configured is fixed by the
\* environment of the call.
\* ---------------------------------------------------------------------
MaxLedgerCalls == 3

VALID_ARTIFACT_TYPES == {"identity", "credential", "declaration", "audit_batch"}

AnchorId(n) == <<"anchor", n>>
BatchId(n) == <<"batch", n>>

\* what can become of a transaction: mined with status 1, mined with
\* status 0, broadcast without a receipt in time, or not accepted by the node
TxOutcomes == {"confirmed", "reverted", "no_receipt", "send_failed"}

AnchorFaults == {"none", "load_anchors", "save_anchors"}

\* self._schema_uid is set: a schema registration has been confirmed
SchemaRegistered(led) ==
    \E i \in 1..Len(led) : led[i].fn = "register" /\ led[i].outcome = "confirmed"

NewAnchor(n, led, artifact_hash, artifact_type, artifact_id) ==
    [anchor_id |-> AnchorId(n),
     artifact_type |-> artifact_type,
     artifact_id |-> artifact_id,
     artifact_hash |-> artifact_hash,
     tx_hash |-> <<"tx", Len(led)>>,
     anchored_at |-> now,
     issuer_did |-> ServerDid]


\* anchor_artifact from the stores anc, led and the counter n: what it
\* returns and what it leaves behind.  The chain answers the schema
\* registration (sent when no schema is registered yet) with registration
\* and the attestation with outcome; fault is the store operation that
\* raises, if any.
AnchorArtifact(anc, led, n, configured, artifact_hash, artifact_type, artifact_id, registration, outcome, fault) ==
    LET unchanged == [anchors |-> anc, ledger |-> led, next_id |-> n,
                      attest |-> "none"]
        registered == IF SchemaRegistered(led) THEN led
                      ELSE Append(led, [fn |-> "register",
                                        artifact_hash |-> <<>>,
                                        outcome |-> registration])
        sent == Append(registered,
                       [fn |-> "attest", artifact_hash |-> artifact_hash,
                        outcome |-> outcome])
        anchor == NewAnchor(n + 1, sent, artifact_hash, artifact_type,
                            artifact_id)
    IN  IF ~configured
        THEN unchanged
                 @@ [ret |-> [error |-> "Blockchain anchoring not configured"]]
        ELSE IF artifact_type \notin VALID_ARTIFACT_TYPES
        THEN unchanged @@ [ret |-> [error |-> "Invalid artifact_type"]]
        ELSE IF ~SchemaRegistered(registered)
        THEN [unchanged EXCEPT !.ledger = registered]
                 @@ [ret |-> [error |-> "Schema registration failed"]]
        ELSE IF outcome = "reverted"
        THEN [unchanged EXCEPT !.ledger = sent, !.attest = outcome]
                 @@ [ret |-> [error |-> "Attestation transaction reverted"]]
        ELSE IF outcome # "confirmed"
        THEN [unchanged EXCEPT !.ledger = sent, !.attest = outcome]
                 @@ [ret |-> [error |-> "anchor_artifact failed"]]
        ELSE IF fault # "none"
        THEN [unchanged EXCEPT !.ledger = sent, !.attest = outcome,
                               !.next_id = n + 1]
                 @@ [ret |-> [error |-> "anchor_artifact failed"]]
        ELSE [anchors |-> Append(anc, anchor), ledger |-> sent,
              next_id |-> n + 1, attest |-> outcome, ret |-> anchor]

\* the state after an anchoring call and the record of the call
Anchored(op, agent_id, configured, artifact_type, r) ==
    /\ anchors' = r.anchors
    /\ ledger' = r.ledger
    /\ next_id' = r.next_id
    /\ last' = [op |-> op, agent_id |-> agent_id, configured |-> configured,
                artifact_type |-> artifact_type, attest |-> r.attest,
                ret |-> r.ret]
    /\ acked' = IF "error" \in DOMAIN r.ret THEN acked
                ELSE acked \cup {<<op, agent_id, r.ret.anchor_id>>}

\* an anchoring call that ends before anchor_artifact is reached
AnchorRefused(op, agent_id, configured, artifact_type, error) ==
    Anchored(op, agent_id, configured, artifact_type,
             [anchors |-> anchors, ledger |-> ledger, next_id |-> next_id,
              attest |-> "none", ret |-> [error |-> error]])

\* tools/blockchain_tools.py anchor_identity
AnchorIdentity ==
    /\ Len(ledger) < MaxLedgerCalls
    /\ \E agent_id \in Subjects \cup {AgentId(3)}, configured \in BOOLEAN,
          registration \in TxOutcomes, outcome \in TxOutcomes,
          fault \in AnchorFaults :
          LET identity == GetIdentity(identities, agent_id)
          IN  IF identity = <<>>
              THEN AnchorRefused("anchor_identity", agent_id, configured,
                                 "identity", "Identity not found")
              ELSE Anchored("anchor_identity", agent_id, configured,
                            "identity",
                            AnchorArtifact(anchors, ledger, next_id,
                                configured, Hex(Sha256(identity)),
                                "identity", agent_id, registration, outcome,
                                fault))
    /\ UNCHANGED <<now, identities, credentials, delegations, compliance,
                   audit_log, reputation, provenance_entries, pc, fs, tokens,
                   cache>>

\* tools/blockchain_tools.py anchor_credential
AnchorCredential ==
    /\ Len(ledger) < MaxLedgerCalls
    /\ \E i \in 1..Len(credentials), configured \in BOOLEAN,
          registration \in TxOutcomes, outcome \in TxOutcomes,
          fault \in AnchorFaults :
          Anchored("anchor_credential", credentials[i].credentialSubject.id,
                   configured, "credential",
                   AnchorArtifact(anchors, ledger, next_id, configured,
                       Hex(Sha256(credentials[i])), "credential",
                       credentials[i].id, registration, outcome, fault))
    /\ UNCHANGED <<now, identities, credentials, delegations, compliance,
                   audit_log, reputation, provenance_entries, pc, fs, tokens,
                   cache>>

\* anchor_artifact called with an artifact type of the caller's choice
AnchorArtifactCall ==
    /\ Len(ledger) < MaxLedgerCalls
    /\ \E artifact_type \in {"declaration", "bogus"}, configured \in BOOLEAN,
          registration \in TxOutcomes, outcome \in TxOutcomes,
          fault \in AnchorFaults :
          Anchored("anchor_artifact", <<>>, configured, artifact_type,
                   AnchorArtifact(anchors, ledger, next_id, configured,
                       Hex(Sha256(DeclarationId(1))), artifact_type,
                       DeclarationId(1), registration, outcome, fault))
    /\ UNCHANGED <<now, identities, credentials, delegations, compliance,
                   audit_log, reputation, provenance_entries, pc, fs, tokens,
                   cache>>

\* anchor_audit_batch without a date range: the batch id is drawn before
\* anchor_artifact runs, batch_metadata is added to the returned result after
\* anchor_artifact has saved the anchor
AnchorAuditBatch ==
    /\ Len(ledger) < MaxLedgerCalls
    /\ \E agent_id \in Subjects, configured \in BOOLEAN,
          registration \in TxOutcomes, outcome \in TxOutcomes,
          fault \in AnchorFaults :
          LET entries == SelectSeq(audit_log,
                                   LAMBDA e : e.agent_id = agent_id)
              merkle == ComputeMerkleRoot(entries)
              r == AnchorArtifact(anchors, ledger, next_id + 1, configured,
                                  merkle.root, "audit_batch",
                                  BatchId(next_id + 1), registration,
                                  outcome, fault)
          IN  IF ~configured
              THEN AnchorRefused("anchor_audit_batch", agent_id, configured,
                                 "audit_batch",
                                 "Blockchain anchoring not configured")
              ELSE IF entries = <<>>
              THEN AnchorRefused("anchor_audit_batch", agent_id, configured,
                                 "audit_batch", "No audit log entries found")
              ELSE Anchored("anchor_audit_batch", agent_id, configured,
                            "audit_batch",
                            IF "error" \in DOMAIN r.ret THEN r
                            ELSE [r EXCEPT !.ret = r.ret @@
                                     [batch_metadata |->
                                         [agent_id |-> agent_id,
                                          entry_count |-> merkle.leaf_count,
                                          merkle_root |-> merkle.root]]])
    /\ UNCHANGED <<now, identities, credentials, delegations, compliance,
                   audit_log, reputation, provenance_entries, pc, fs, tokens,
                   cache>>

\* agent_id in aid, on identifiers that are sequences of parts
IsSubstring(needle, hay) ==
    \E i \in 0..(Len(hay) - Len(needle)) :
        SubSeq(hay, i + 1, i + Len(needle)) = needle

\* get_anchor_status: the anchors whose artifact_id contains the agent id or
\* whose batch_metadata names the agent
AgentAnchors(anc, agent_id) ==
    SelectSeq(anc, LAMBDA a :
        \/ IsSubstring(agent_id, a.artifact_id)
        \/ ("batch_metadata" \in DOMAIN a
              /\ a.batch_metadata.agent_id = agent_id))

GetAnchorStatus ==
    /\ \E agent_id \in Subjects :
          LET agent_anchors == AgentAnchors(anchors, agent_id)
              types == {agent_anchors[i].artifact_type :
                           i \in 1..Len(agent_anchors)}
          IN  last' = [op |-> "get_anchor_status", agent_id |-> agent_id,
                       ret |-> [agent_id |-> agent_id,
                                total_anchors |-> Len(agent_anchors),
                                by_type |->
                                    [t \in types |->
                                        Len(SelectSeq(agent_anchors,
                                            LAMBDA a : a.artifact_type = t))],
                                anchors |-> agent_anchors]]
    /\ UNCHANGED <<now, next_id, identities, credentials, delegations,
                   compliance, audit_log, reputation, provenance_entries,
                   pc, fs, tokens, acked, cache, anchors, ledger>>

InitAnchor ==
    /\ now = 0
    /\ next_id = 4
    /\ identities = <<NewUait(1, "Bot", 1), NewUait(2, "Bot", 1)>>
    /\ credentials = <<NewCredential(3, AgentId(1), "AgentIdentityCredential",
                                     "Corp", [role |-> "tester"], 1)>>
    /\ delegations = <<>>
    /\ compliance = EmptyCompliance
    /\ audit_log = <<NewLogEntry(4, AgentId(1), "inference")>>
    /\ reputation = EmptyReputation
    /\ provenance_entries = <<>>
    /\ last = NoCall
    /\ pc = [w \in Workers |-> Idle]
    /\ fs = <<>>
    /\ tokens = {}
    /\ acked = {}
    /\ cache = <<>>
    /\ anchors = <<>>
    /\ ledger = <<>>

NextAnchor ==
    \/ AnchorIdentity
    \/ AnchorCredential
    \/ AnchorArtifactCall
    \/ AnchorAuditBatch
    \/ GetAnchorStatus

SpecAnchor == InitAnchor /\ [][NextAnchor]_vars

AnchorOps ==
    {"anchor_identity", "anchor_credential", "anchor_artifact",
     "anchor_audit_batch"}

\* C32: anchor_artifact stores an anchor record if and only if the ledger
\* transaction was confirmed with a successful receipt; when the ledger is
\* not configured, the artifact type is invalid, the transaction reverts or
\* waiting for the receipt fails, it returns an error and the anchors
\* collection is unchanged, and when unconfigured no ledger call is made.
C32_AnchorStoredIffConfirmed ==
    [][(last'.op \in AnchorOps /\ last' # last) =>
          /\ (anchors' # anchors) <=> (last'.attest = "confirmed")
          /\ (anchors' # anchors) =>
                 /\ Len(anchors') = Len(anchors) + 1
                 /\ SubSeq(anchors', 1, Len(anchors)) = anchors
                 /\ "error" \notin DOMAIN last'.ret
          /\ (\/ ~last'.configured
              \/ last'.artifact_type \notin VALID_ARTIFACT_TYPES
              \/ last'.attest \in {"reverted", "no_receipt", "send_failed"})
             => ("error" \in DOMAIN last'.ret /\ anchors' = anchors)
          /\ ~last'.configured => ledger' = ledger]_vars

\* C37: get_anchor_status(agent_id) returns every stored anchor that belongs
\* to the agent, grouped by type: after a successful anchor of the agent's
\* identity, of a credential whose subject is the agent, or of an audit
\* batch for the agent, that anchor is listed.
C37_AnchorStatusListsAgentAnchors ==
    last.op = "get_anchor_status" =>
        \A x \in acked :
            (x[1] \in AnchorOps /\ x[2] = last.agent_id) =>
                \E i \in 1..Len(last.ret.anchors) :
                    /\ last.ret.anchors[i].anchor_id = x[3]
                    /\ last.ret.anchors[i].artifact_type
                           \in DOMAIN last.ret.by_type

\* ---------------------------------------------------------------------
\* auth/token_parser.py and create_identity with an identity token.  A token
\* is the sequence of its pieces: the first piece is its first six
\* characters, the last piece its last four.
\* ---------------------------------------------------------------------
NoIdentityToken == <<>>
ApiKeyToken == <<"sk-ver", "y-secret-api-key-ABCDEF1234567890", "7890">>
BearerToken == <<"Bearer", " eyJhbGciOi-secret-", "9f3a">>
DidToken == <<"did:ke", "y:z6Mk", "abcd">>

SourceProtocols == {"mcp", "api_key"}

IdentityTokens == {NoIdentityToken, ApiKeyToken, BearerToken, DidToken}

\* the tokens that are credentials of their bearer
SecretTokens == {ApiKeyToken, BearerToken}

\* detect_token_type: DID_PATTERN, then API_KEY_PATTERN (no blank allowed),
\* otherwise unknown
DetectTokenType(token) ==
    IF token[1] = "did:ke" THEN "did"
    ELSE IF token[1] = "Bearer" THEN "unknown"
    ELSE "api_key"

\* token[:6] + "..." + token[-4:]
KeyPreview(token) == <<token[1], "...", token[Len(token)]>>

\* extract_identity_from_token
ExtractIdentityFromToken(token) ==
    LET token_type == DetectTokenType(token)
        result == [token_type |-> token_type, original_token |-> token]
    IN  IF token_type = "did"
        THEN result @@ [did_method |-> "key", did_specific_id |-> token[3]]
        ELSE IF token_type = "api_key"
        THEN result @@ [key_preview |-> KeyPreview(token),
                        key_length |-> Len(token)]
        ELSE result

\* the uait of create_identity called with identity_token
NewUaitWithToken(n, display_name, source_protocol, expiry_days, identity_token) ==
    LET plain == NewUait(n, display_name, expiry_days)
        uait == [plain EXCEPT
                    !.source_protocol = source_protocol,
                    !.identity_token = identity_token,
                    !.token_info =
                        IF identity_token = NoIdentityToken THEN <<>>
                        ELSE ExtractIdentityFromToken(identity_token)]
    IN  SetField(uait, "signature",
                 SignJsonPayload(ServerKey, SignablePayload(uait)))

CreateIdentityWithToken ==
    /\ next_id < MaxIds
    /\ \E display_name \in Names, expiry_days \in ExpiryDays,
          source_protocol \in SourceProtocols,
          identity_token \in IdentityTokens :
          LET uait == NewUaitWithToken(next_id + 1, display_name,
                                       source_protocol, expiry_days,
                                       identity_token)
          IN  /\ identities' = Append(identities, uait)
              /\ last' = [op |-> "create_identity", ret |-> uait.agent_id,
                          identity_token |-> identity_token]
    /\ next_id' = next_id + 1
    /\ UNCHANGED <<now, credentials, delegations, compliance, audit_log,
                   reputation, provenance_entries, pc, fs, tokens, acked,
                   cache, anchors, ledger>>

NextIdentityToken ==
    \/ CreateIdentityWithToken
    \/ RevokeIdentity
    \/ UpdateReputation
    \/ Tick

SpecIdentityToken == Init /\ [][NextIdentityToken]_vars

\* C33: no stored identity contains a secret-like identity token in clear:
\* when create_identity is given an API-key-like or bearer token, the
\* persisted identity holds, in identity_token and in token_info, only a
\* masked form of it.
C33_NoSecretTokenStored ==
    \A i \in 1..Len(identities) :
        /\ identities[i].identity_token \notin SecretTokens
        /\ "original_token" \in DOMAIN identities[i].token_info =>
               identities[i].token_info.original_token \notin SecretTokens

\* ---------------------------------------------------------------------
\* list_identities
\* ---------------------------------------------------------------------
\* source_protocol=None (the tool passes `source_protocol or None`)
NoProtocol == "None"

ProtocolFilters == SourceProtocols \cup {NoProtocol}

Limits == {0, 1, 2}

\* the loop of list_identities from the i-th stored agent on, with the
\* results gathered so far: skip the revoked unless include_revoked, skip
\* the other protocols, append, and break once len(results) >= limit
RECURSIVE ListIdentitiesFrom(_, _, _, _, _, _)
ListIdentitiesFrom(agents, i, results, source_protocol, include_revoked, limit) ==
    IF i > Len(agents) THEN results
    ELSE LET agent == agents[i]
         IN  IF ~include_revoked /\ Get(agent, "revoked", FALSE)
             THEN ListIdentitiesFrom(agents, i + 1, results, source_protocol,
                                     include_revoked, limit)
             ELSE IF source_protocol # NoProtocol
                     /\ agent.source_protocol # source_protocol
             THEN ListIdentitiesFrom(agents, i + 1, results, source_protocol,
                                     include_revoked, limit)
             ELSE LET appended == Append(results, agent)
                  IN  IF Len(appended) >= limit THEN appended
                      ELSE ListIdentitiesFrom(agents, i + 1, appended,
                                              source_protocol,
                                              include_revoked, limit)

ListIdentities(agents, source_protocol, include_revoked, limit) ==
    ListIdentitiesFrom(agents, 1, <<>>, source_protocol, include_revoked, limit)

ListIdentitiesCall ==
    /\ \E source_protocol \in ProtocolFilters, include_revoked \in BOOLEAN,
          limit \in Limits :
          last' = [op |-> "list_identities",
                   source_protocol |-> source_protocol,
                   include_revoked |-> include_revoked,
                   limit |-> limit,
                   ret |-> ListIdentities(identities, source_protocol,
                                          include_revoked, limit)]
    /\ UNCHANGED <<now, next_id, identities, credentials, delegations,
                   compliance, audit_log, reputation, provenance_entries,
                   pc, fs, tokens, acked, cache, anchors, ledger>>

NextIdentityList ==
    \/ CreateIdentityWithToken
    \/ RevokeIdentity
    \/ Tick
    \/ ListIdentitiesCall

SpecIdentityList == Init /\ [][NextIdentityList]_vars

\* the stored identities the call is to return, in stored order: those not
\* revoked (or all of them with include_revoked) of the asked protocol,
\* expired or not
Listed(agent) ==
    /\ last.include_revoked \/ ~agent.revoked
    /\ last.source_protocol = NoProtocol
       \/ agent.source_protocol = last.source_protocol

\* C34: list_identities returns by default exactly the stored identities
\* that are not revoked, subject to the protocol filter and the limit (the
\* first `limit` of them); include_revoked adds the revoked ones; an expired
\* identity is never left out for being expired.
C34_ListIdentitiesExact ==
    last.op = "list_identities" =>
        LET wanted == SelectSeq(identities, Listed)
            n == IF Len(wanted) < last.limit THEN Len(wanted) ELSE last.limit
        IN  last.ret = SubSeq(wanted, 1, n)

\* ---------------------------------------------------------------------
\* verify_credential_external and verify_presentation on objects signed by
\* a party other than the stated issuer
\* ---------------------------------------------------------------------
\* a key pair that is not the server's
AttackerKey == "attacker-key"

AttackerDid == PublicKeyToDidKey(AttackerKey)

SigningKeys == {ServerKey, AttackerKey}

\* the verification methods a submitted proof may name: the server's, the
\* attacker's, or one without a fragment
VerificationMethods ==
    {ServerDid \o DidKeyFragment(ServerDid),
     AttackerDid \o DidKeyFragment(AttackerDid),
     ServerDid}

\* object with its proof value made by key over payload and its proof
\* naming vm
Resigned(object, payload, key, vm) ==
    [object EXCEPT !.proof.proofValue = SignJsonPayload(key, payload),
                   !.proof.verificationMethod = vm]

\* verify_credential_external on a stored credential, as issued or with a
\* claim changed, whose proof was remade by the holder of key and names vm
VerifyResignedCredentialCall ==
    /\ \E i \in 1..Len(credentials), tamper \in {"none", "role"},
          key \in SigningKeys, vm \in VerificationMethods :
          LET altered == Tampered(credentials[i], tamper)
              credential == Resigned(altered, CredentialPayload(altered),
                                     key, vm)
          IN  last' = [op |-> "verify_credential_external",
                       issued |-> credentials[i],
                       credential |-> credential,
                       ret |-> VerifyCredentialExternal(credentials,
                                                        credential)]
    /\ UNCHANGED <<now, next_id, identities, credentials, delegations,
                   compliance, audit_log, reputation, provenance_entries,
                   pc, fs, tokens, acked, cache, anchors, ledger>>

\* verify_presentation on a presentation of one stored credential put
\* together and signed by the holder of key, its proof naming vm
VerifyResignedPresentationCall ==
    /\ \E i \in 1..Len(credentials), key \in SigningKeys,
          vm \in VerificationMethods :
          LET vp == NewPresentation(0, credentials[i].credentialSubject.id,
                                    <<credentials[i]>>, "", "")
              presentation == Resigned(vp, Without(vp, {"proof"}), key, vm)
          IN  last' = [op |-> "verify_presentation",
                       signed |-> vp,
                       presentation |-> presentation,
                       ret |-> VerifyPresentation(presentation)]
    /\ UNCHANGED <<now, next_id, identities, credentials, delegations,
                   compliance, audit_log, reputation, provenance_entries,
                   pc, fs, tokens, acked, cache, anchors, ledger>>

NextResigned ==
    \/ IssueCredential
    \/ VerifyResignedCredentialCall
    \/ VerifyResignedPresentationCall
    \/ Tick

SpecResigned == Init /\ [][NextResigned]_vars

\* the key a proof value was made with
SignedWith(object) == object.proof.proofValue[1]

\* C35: verify_credential_external and verify_presentation report a valid
\* signature only when it was made by the key of the stated issuer: the
\* credential's issuer.id, and for a presentation the server key.  A
\* credential or presentation signed with another key is rejected, also when
\* its unsigned proof.verificationMethod names that other key's DID.
C35_SignatureByStatedIssuer ==
    /\ last.op = "verify_credential_external" =>
          (last.ret.checks.signature_valid =>
               SignedWith(last.credential)
                   = DidKeyToPublicKey(last.credential.issuer.id))
    /\ last.op = "verify_presentation" =>
          (last.ret.checks.vp_signature_valid =>
               SignedWith(last.presentation) = ServerKey)

\* C36: a child delegation does not exceed its parent's capabilities: for
\* every delegation created with a parent_token, the capabilities
\* verify_delegation reports for the child are a subset of the capabilities
\* of the parent token.
C36_ChildWithinParent ==
    \A child \in tokens :
        LET result == VerifyDelegation(delegations, now, child)
        IN  (Len(child.payload.prf) = 1 /\ result.valid) =>
                \A k \in 1..Len(result.capabilities) :
                    \E m \in 1..Len(child.payload.prf[1].payload.att) :
                        result.capabilities[k]
                            = child.payload.prf[1].payload.att[m]

\* ---------------------------------------------------------------------
\* build_merkle_tree called on lists of leaf hashes
\* ---------------------------------------------------------------------
MaxTreeLeaves == 7

LeafHashes == {HashLeaf([i |-> 1]), HashLeaf([i |-> 2])}

\* build_merkle_tree: ValueError on the empty list, otherwise the root
BuildMerkleTreeCall ==
    /\ last = NoCall
    /\ \E leaves \in SeqsUpTo(LeafHashes, MaxTreeLeaves) :
          last' = [op |-> "build_merkle_tree",
                   leaves |-> leaves,
                   raised |-> IF leaves = <<>> THEN "ValueError" ELSE "",
                   root |-> IF leaves = <<>> THEN <<>>
                            ELSE BuildMerkleTree(leaves)]
    /\ UNCHANGED <<now, next_id, identities, credentials, delegations,
                   compliance, audit_log, reputation, provenance_entries,
                   pc, fs, tokens, acked, cache, anchors, ledger>>

NextMerkleTree ==
    \/ BuildMerkleTreeCall
    \/ CallReturned

SpecMerkleTree == Init /\ [][NextMerkleTree]_vars

\* the largest power of two smaller than n, for n > 1
RECURSIVE SplitPoint(_, _)
SplitPoint(n, k) == IF 2 * k < n THEN SplitPoint(n, 2 * k) ELSE k

\* RFC 6962, section 2.1: the Merkle tree hash of a non-empty list of leaf
\* hashes is the leaf hash itself for one leaf and otherwise the node hash
\* of the tree hashes of the first k and of the remaining leaves, k the
\* largest power of two smaller than the length
RECURSIVE MerkleTreeHash(_)
MerkleTreeHash(leaves) ==
    IF Len(leaves) = 1 THEN leaves[1]
    ELSE LET k == SplitPoint(Len(leaves), 1)
         IN  HashPair(MerkleTreeHash(SubSeq(leaves, 1, k)),
                      MerkleTreeHash(SubSeq(leaves, k + 1, Len(leaves))))

\* C38: for every non-empty list of leaves build_merkle_tree returns the
\* root got by pairing adjacent nodes left to right and carrying an unpaired
\* last node up unchanged: the leaf hash itself for one leaf, H(H(a,b),c)
\* for three leaves, and in every case the RFC 6962 Merkle tree hash of the
\* same leaves; for the empty list it raises an error.
C38_RootIsRfc6962TreeHash ==
    last.op = "build_merkle_tree" =>
        LET leaves == last.leaves
        IN  /\ leaves = <<>> <=> last.raised = "ValueError"
            /\ leaves # <<>> => last.root = MerkleTreeHash(leaves)
            /\ Len(leaves) = 1 => last.root = leaves[1]
            /\ Len(leaves) = 3 =>
                  last.root = HashPair(HashPair(leaves[1], leaves[2]),
                                       leaves[3])

\* a root was returned for five leaves, the last one carried up two levels
C38_Witness ==
    /\ last.op = "build_merkle_tree"
    /\ Len(last.leaves) = 5
    /\ last.raised = ""
    /\ last.root = HashPair(HashPair(HashPair(last.leaves[1], last.leaves[2]),
                                     HashPair(last.leaves[3], last.leaves[4])),
                            last.leaves[5])

\* C39: revocation of identities and credentials is irreversible: once
\* revoke_identity or revoke_credential has succeeded, no later step of any
\* service operation (update_reputation, update_compliance_ref, a repeated
\* revoke, creating or issuing other records) sets revoked back to false, so
\* the identity or credential never verifies valid again.
C39_RevocationIrreversible ==
    [][/\ \A i \in 1..Len(identities) :
            identities[i].revoked =>
                /\ \A j \in 1..Len(identities') :
                      identities'[j].agent_id = identities[i].agent_id
                          => identities'[j].revoked
                /\ \A agent_id \in {identities[i].agent_id} :
                      ~(VerifyIdentity(identities, agent_id).valid)'
       /\ \A i \in 1..Len(credentials) :
            credentials[i].credentialStatus.revoked =>
                /\ \A j \in 1..Len(credentials') :
                      credentials'[j].id = credentials[i].id
                          => credentials'[j].credentialStatus.revoked
                /\ \A credential_id \in {credentials[i].id} :
                      ~(VerifyCredential(credentials, credential_id).valid)'
      ]_vars

\* ---------------------------------------------------------------------
\* Presentations kept by their holder while the credential store changes.
\* acked holds the presentations handed out and the verdicts returned.
\* ---------------------------------------------------------------------
MaxKept == 1

Kept == {x \in acked : x[1] = "presentation"}

\* the credential_ids asked for: one credential, stored or not
OneCredentialId == {<<CredId(n)>> : n \in 1..MaxIds}

\* create_verifiable_presentation; the holder keeps what it returns
CreateVerifiablePresentationKept ==
    /\ \E agent_id \in Subjects, credential_ids \in OneCredentialId :
          LET found == [i \in 1..Len(credential_ids) |->
                            FindCredential(credentials, credential_ids[i])]
              error == \E i \in 1..Len(found) :
                          \/ found[i] = <<>>
                          \/ Get(Get(found[i], "credentialSubject", <<>>),
                                 "id", <<>>) # agent_id
          IN  IF error
              THEN /\ last' = [op |-> "create_verifiable_presentation",
                               agent_id |-> agent_id,
                               credential_ids |-> credential_ids,
                               ret |-> "error"]
                   /\ UNCHANGED <<next_id, acked>>
              ELSE /\ next_id < MaxIds + MaxPresentations
                   /\ Cardinality(Kept) < MaxKept
                   /\ next_id' = next_id + 1
                   /\ LET vp == NewPresentation(next_id + 1, agent_id, found,
                                                "", "")
                      IN  /\ last' = [op |-> "create_verifiable_presentation",
                                      agent_id |-> agent_id,
                                      credential_ids |-> credential_ids,
                                      ret |-> "ok", vp |-> vp]
                          /\ acked' = acked \cup {<<"presentation", vp>>}
    /\ UNCHANGED <<now, identities, credentials, delegations, compliance,
                   audit_log, reputation, provenance_entries, pc, fs,
                   tokens, cache, anchors, ledger>>

\* what the holder hands in: the presentation as signed
KeptTampers == {"none"}

\* verify_presentation of a kept presentation against the store as it is
VerifyKeptPresentationCall ==
    /\ \E x \in acked, tamper \in KeptTampers :
          /\ x[1] = "presentation"
          /\ LET presentation == TamperedVp(x[2], tamper)
                 ret == VerifyPresentation(presentation)
             IN  /\ last' = [op |-> "verify_presentation",
                             signed |-> x[2],
                             presentation |-> presentation,
                             ret |-> ret]
                 /\ acked' = acked \cup {<<"verdict", presentation, ret>>}
    /\ UNCHANGED <<now, next_id, identities, credentials, delegations,
                   compliance, audit_log, reputation, provenance_entries,
                   pc, fs, tokens, cache, anchors, ledger>>

NextPresentationKept ==
    \/ IssueCredential
    \/ RevokeCredential
    \/ CreateVerifiablePresentationKept
    \/ VerifyKeptPresentationCall

SpecPresentationKept == Init /\ [][NextPresentationKept]_vars

\* the stored credential with this id is revoked
StoredRevoked(credential_id) ==
    \E j \in 1..Len(credentials) :
        /\ credentials[j].id = credential_id
        /\ credentials[j].credentialStatus.revoked

\* C40: the verdict of verify_presentation depends only on the presentation
\* handed in, never on the credential store: the same presentation gets the
\* same result in any two store states, so a presentation that bundled a
\* credential while it was valid still verifies after that credential is
\* revoked; create_verifiable_presentation likewise accepts a revoked
\* credential of the agent.
C40_VerdictIndependentOfStore ==
    /\ \A x \in acked, y \in acked :
          (x[1] = "verdict" /\ y[1] = "verdict" /\ x[2] = y[2])
              => x[3] = y[3]
    /\ (last.op = "verify_presentation"
           /\ last.presentation = last.signed) => last.ret.valid
    /\ last.op = "create_verifiable_presentation" =>
          (last.ret = "ok" <=>
               \A i \in 1..Len(last.credential_ids) :
                   \E j \in 1..Len(credentials) :
                       /\ credentials[j].id = last.credential_ids[i]
                       /\ credentials[j].credentialSubject.id = last.agent_id)

\* a presentation of a credential verified valid while the credential was
\* unrevoked and verifies valid now that the credential is revoked
C40_Witness ==
    /\ last.op = "verify_presentation"
    /\ last.ret.valid
    /\ Len(last.presentation.verifiableCredential) = 1
    /\ ~last.presentation.verifiableCredential[1].credentialStatus.revoked
    /\ StoredRevoked(last.presentation.verifiableCredential[1].id)
    /\ <<"verdict", last.presentation, last.ret>> \in acked

====
